---- MODULE Spec2Model ----
(***************************************************************************)
(* Model of the XIRR calculator (src/xirr_calculator.py): the root finder  *)
(* calculate_xirr with its Newton / Brent / grid-search cascade, and the   *)
(* benchmark replay calculate_nifty50_portfolio.                           *)
(*                                                                         *)
(* Numbers.  The program computes in Python floats, IEEE 754 binary64.     *)
(* The model does the same: a number is a record [m, l, e] with a mantissa *)
(* of MBits = 53 bits, and +, -, * and / give the exact result rounded to  *)
(* nearest, ties to even.  x ** y is what the C library's pow() returns,   *)
(* computed as the library computes it, operation by operation and with    *)
(* its tables.  sum() adds from left to right, starting from 0.            *)
(*                                                                         *)
(* Dates.  A ledger row carries a day number; a datetime is a number of    *)
(* seconds, midnight for a row's date and a later time of the day for      *)
(* datetime.now().  (date - first).days / 365.25 is a float, a whole       *)
(* number of years only for the multiples of DaysPerLeapCycle = 1461 days. *)
(***************************************************************************)
EXTENDS Integers, Sequences, FiniteSets, TLC

(***************************************************************************)
(* Floating point arithmetic: IEEE 754 binary64, round to nearest, ties to *)
(* even.  A number is [m, l, e]: with M = |m| * 2^26 + l its magnitude is  *)
(* M * 2^e, 2^52 <= M < 2^53, and the sign is the sign of m; zero is       *)
(* [0, 0, 0].  Every operation forms the exact result as a natural number  *)
(* and rounds it once.  Exponents are not bounded: no number of the model  *)
(* comes near the largest or the smallest binary64 number.                 *)
(***************************************************************************)
MBits == 53
B == 2 ^ 13
Limb == 2 ^ 26
HiMax == 2 ^ (MBits - 26)

IAbs(n) == IF n < 0 THEN -n ELSE n
ISign(n) == IF n < 0 THEN -1 ELSE IF n > 0 THEN 1 ELSE 0
IMin(a, b) == IF a < b THEN a ELSE b

Zero == [m |-> 0, l |-> 0, e |-> 0]

\* the number of bits of a natural number below 2^27
BitLen4(d) == IF d >= 8 THEN 4 ELSE IF d >= 4 THEN 3 ELSE IF d >= 2 THEN 2 ELSE d
BitLen8(d) == IF d >= 16 THEN 4 + BitLen4(d \div 16) ELSE BitLen4(d)
BitLen16(d) == IF d >= 256 THEN 8 + BitLen8(d \div 256) ELSE BitLen8(d)
BitLen(d) == IF d >= 65536 THEN 16 + BitLen16(d \div 65536) ELSE BitLen16(d)

\* the record for sign s, mantissa hi * 2^26 + lo + up and exponent e
Pack(s, hi, lo, e) ==
    IF hi = HiMax THEN [m |-> s * Limb, l |-> 0, e |-> e + 1]
    ELSE [m |-> s * hi, l |-> lo, e |-> e]
RoundUp(s, hi, lo, e, up) ==
    IF ~up THEN Pack(s, hi, lo, e)
    ELSE IF lo + 1 = Limb THEN Pack(s, hi + 1, 0, e)
    ELSE Pack(s, hi, lo + 1, e)

\* A wide number is << h, m, l >>, three limbs of 26 bits with the value
\* h * 2^52 + m * 2^26 + l, where h may have up to 28 bits.
Norm3(h, m, l) ==
    << h + ((m + (l \div Limb)) \div Limb), (m + (l \div Limb)) % Limb, l % Limb >>
ShlBits(R, z) ==
    << R[1] * (2 ^ z) + (R[2] \div (2 ^ (26 - z))),
       (R[2] % (2 ^ (26 - z))) * (2 ^ z) + (R[3] \div (2 ^ (26 - z))),
       (R[3] % (2 ^ (26 - z))) * (2 ^ z) >>
ShrBits(R, r) ==
    << R[1] \div (2 ^ r),
       (R[1] % (2 ^ r)) * (2 ^ (26 - r)) + (R[2] \div (2 ^ r)),
       (R[2] % (2 ^ r)) * (2 ^ (26 - r)) + (R[3] \div (2 ^ r)) >>

\* s * (R + t) * 2^e rounded to nearest, ties to even, where 0 < t < 1 if
\* sticky and t = 0 if not
\* for R[1] of 27 or 28 bits
RoundWide(s, R, e, sticky) ==
    IF R[1] >= HiMax
    THEN RoundUp(s, R[1] \div 2, (R[1] % 2) * (Limb \div 2) + (R[2] \div 2), e + 27,
                 R[2] % 2 = 1 /\ (sticky \/ R[3] # 0 \/ (R[2] \div 2) % 2 = 1))
    ELSE RoundUp(s, R[1], R[2], e + 26,
                 R[3] >= Limb \div 2
                 /\ (sticky \/ R[3] # Limb \div 2 \/ R[2] % 2 = 1))
\* for 0 < R[1] < 2^26: the leading bit moves up to bit 27 of the first limb
RoundShifted(s, R, e, sticky) ==
    RoundWide(s, ShlBits(R, 27 - BitLen(R[1])), e - 27 + BitLen(R[1]), sticky)
Round3(s, R, e, sticky) ==
    IF R[1] >= Limb THEN RoundWide(s, R, e, sticky)
    ELSE IF R[1] # 0 THEN RoundShifted(s, R, e, sticky)
    ELSE IF R[2] # 0 THEN RoundShifted(s, << R[2], R[3], 0 >>, e - 26, sticky)
    ELSE IF R[3] # 0 THEN RoundShifted(s, << R[3], 0, 0 >>, e - 52, sticky)
    ELSE Zero

FromInt(n) == Round3(ISign(n), << 0, IAbs(n) \div Limb, IAbs(n) % Limb >>, 0, FALSE)
FNeg(a) == [m |-> -a.m, l |-> a.l, e |-> a.e]
FAbs(a) == [m |-> IAbs(a.m), l |-> a.l, e |-> a.e]
One == FromInt(1)

\* -1, 0 or 1 as a is below, equal to or above b
MagCmp(a, b) ==
    IF a.e # b.e THEN (IF a.e < b.e THEN -1 ELSE 1)
    ELSE IF IAbs(a.m) # IAbs(b.m) THEN (IF IAbs(a.m) < IAbs(b.m) THEN -1 ELSE 1)
    ELSE IF a.l # b.l THEN (IF a.l < b.l THEN -1 ELSE 1)
    ELSE 0
FCmp(a, b) ==
    IF ISign(a.m) # ISign(b.m) THEN (IF ISign(a.m) < ISign(b.m) THEN -1 ELSE 1)
    ELSE IF a.m = 0 THEN 0
    ELSE ISign(a.m) * MagCmp(a, b)
FLt(a, b) == FCmp(a, b) < 0
FLe(a, b) == FCmp(a, b) <= 0
FMin(a, b) == IF FLt(b, a) THEN b ELSE a
FMax(a, b) == IF FLt(a, b) THEN b ELSE a

\* a + b for a.e >= b.e: the mantissa of b, d = a.e - b.e bits to the right
\* of that of a, is << Y, whether bits of b fell off >>; from AlignLimit
\* bits on b is below a quarter of the last bit of a
AlignLimit == MBits + 2
Aligned(S, q) ==
    IF q = 0 THEN << S, FALSE >>
    ELSE IF q = 1 THEN << << 0, S[1], S[2] >>, S[3] # 0 >>
    ELSE << << 0, 0, S[1] >>, S[2] # 0 \/ S[3] # 0 >>
AddSame(s, X, Y, e) ==
    Round3(s, Norm3(X[1] + Y[1][1], X[2] + Y[1][2], X[3] + Y[1][3]), e, Y[2])
SubRound(s, t, D, X, Y, e, sticky) ==
    IF D[1] >= 0 THEN Round3(s, D, e, sticky)
    ELSE Round3(t, Norm3(Y[1] - X[1], Y[2] - X[2], Y[3] - X[3]), e, sticky)
AddOpposite(s, t, X, Y, e) ==
    SubRound(s, t,
             Norm3(X[1] - Y[1][1], X[2] - Y[1][2],
                   X[3] - Y[1][3] - (IF Y[2] THEN 1 ELSE 0)),
             X, Y[1], e, Y[2])
AddAligned(a, b, d) ==
    IF d >= AlignLimit THEN a
    ELSE IF ISign(a.m) = ISign(b.m)
    THEN AddSame(ISign(a.m), << IAbs(a.m), a.l, 0 >>,
                 Aligned(ShrBits(<< IAbs(b.m), b.l, 0 >>, d % 26), d \div 26), a.e - 26)
    ELSE AddOpposite(ISign(a.m), ISign(b.m), << IAbs(a.m), a.l, 0 >>,
                     Aligned(ShrBits(<< IAbs(b.m), b.l, 0 >>, d % 26), d \div 26), a.e - 26)

FAdd(a, b) ==
    IF a.m = 0 THEN b
    ELSE IF b.m = 0 THEN a
    ELSE IF a.e >= b.e THEN AddAligned(a, b, a.e - b.e)
    ELSE AddAligned(b, a, b.e - a.e)
FSub(a, b) == FAdd(a, FNeg(b))

\* A natural number is a sequence of digits of base B = 2^13, the least
\* significant first.  The five digits of a mantissa times 2^sh, 0 <= sh <= 12:
Digits(a, sh) ==
    << (a.l % (2 ^ (13 - sh))) * (2 ^ sh),
       (a.l \div (2 ^ (13 - sh))) % B,
       (a.l \div (2 ^ (26 - sh))) + (IAbs(a.m) % (2 ^ (13 - sh))) * (2 ^ sh),
       (IAbs(a.m) \div (2 ^ (13 - sh))) % B,
       IAbs(a.m) \div (2 ^ (26 - sh)) >>

\* Each column (below 2^31) hands its carry to the next one.  Two passes
\* over the columns of a product leave digits below B + 8, the highest
\* one apart, which keeps what is above it.
Pass(c) ==
    [j \in 1..Len(c) |->
        (IF j = Len(c) THEN c[j] ELSE (c[j] % B))
        + (IF j = 1 THEN 0 ELSE c[j - 1] \div B)] \o << >>

\* the columns of A * X for five digits each
MulCols(A, X) ==
    << A[1] * X[1],
       A[1] * X[2] + A[2] * X[1],
       A[1] * X[3] + A[2] * X[2] + A[3] * X[1],
       A[1] * X[4] + A[2] * X[3] + A[3] * X[2] + A[4] * X[1],
       A[1] * X[5] + A[2] * X[4] + A[3] * X[3] + A[4] * X[2] + A[5] * X[1],
       A[2] * X[5] + A[3] * X[4] + A[4] * X[3] + A[5] * X[2],
       A[3] * X[5] + A[4] * X[4] + A[5] * X[3],
       A[4] * X[5] + A[5] * X[4],
       A[5] * X[5] >>

\* the carry out of the digits 1 .. n of N, each below 2 * B - 1: 1 if a
\* digit reaches B and every digit above it B - 1; and whether one of the
\* digits is not 0
CarryOut(N, n) ==
    IF \E j \in 1..n : N[j] >= B /\ \A i \in (j + 1)..n : N[i] >= B - 1 THEN 1 ELSE 0
Low(N, n) == \E i \in 1..n : N[i] # 0

\* s * N * 2^e, rounded once, for N of n >= 6 digits with N[n] # 0
RoundTop(s, N, n, e) ==
    Round3(s,
           Norm3(N[n] * B + N[n - 1], N[n - 2] * B + N[n - 3],
                 N[n - 4] * B + N[n - 5] + CarryOut(N, n - 6)),
           e + 13 * (n - 6), Low(N, n - 6))
RoundBig(s, N, e) == RoundTop(s, N, Len(N), e)

FMul(a, b) ==
    IF a.m = 0 \/ b.m = 0 THEN Zero
    ELSE RoundBig(ISign(a.m) * ISign(b.m),
                  Pass(Pass(MulCols(Digits(a, 0), Digits(b, 0)))), a.e + b.e)

\* The digits of the number with the columns c: every column hands its carry
\* to the next, and the last digit is what is left above the columns, -1 if
\* the number is below 0.  N is the digits so far and, last, the carry into
\* the next column.
CarryOn(N, n, col) == SubSeq(N, 1, n - 1) \o << (col + N[n]) % B, (col + N[n]) \div B >>
RECURSIVE Carried(_, _)
Carried(c, N) ==
    IF Len(N) > Len(c) THEN N ELSE Carried(c, CarryOn(N, Len(N), c[Len(N)]))

\* the place of the highest digit of N that is not 0, from place n down
RECURSIVE TopDigit(_, _)
TopDigit(N, n) == IF n = 0 \/ N[n] # 0 THEN n ELSE TopDigit(N, n - 1)

\* s * N * 2^e, rounded once, for N of at least six digits below B, the
\* highest one that is not 0 at place n
RoundDigits(s, N, n, e) ==
    IF n = 0 THEN Zero ELSE RoundTop(s, N, IF n < 6 THEN 6 ELSE n, e)
RoundBelow(s, N, e) == RoundDigits(s, N, TopDigit(N, Len(N)), e)

\* s * (the number with the columns c) * 2^e, rounded once; N is Carried(c)
RoundCarried(s, N, c, e) ==
    RoundBelow(IF N[Len(N)] >= 0 THEN s ELSE -s,
               IF N[Len(N)] >= 0 THEN N ELSE Carried([j \in 1..Len(c) |-> -c[j]], << 0 >>), e)
RoundCols(s, c, e) == RoundCarried(s, Carried(c, << 0 >>), c, e)

\* the n columns of X * B^p + t * Y * B^q
SumCols(X, p, Y, q, t, n) ==
    [j \in 1..n |->
        (IF j > p /\ j <= p + Len(X) THEN X[j - p] ELSE 0)
        + (IF j > q /\ j <= q + Len(Y) THEN t * Y[j - q] ELSE 0)] \o << >>

\* fma(a, b, c): a * b + c, exactly, rounded once.  s is the sign of a * b,
\* t says whether c has the same sign (1) or the other (-1), and d = c.e -
\* (a.e + b.e) is the place of the last bit of c above that of a * b.  From
\* FmaAbove bits on a * b is below a quarter of the last bit of c; from
\* FmaBelow bits down c is below a quarter of the last bit of a * b and
\* counts as one unit of a further digit.
FmaAbove == 2 * MBits + 2
FmaBelow == MBits + 2
FmaCols(a, b, c, t, d) ==
    IF d <= -FmaBelow THEN << t >> \o MulCols(Digits(a, 0), Digits(b, 0))
    ELSE SumCols(MulCols(Digits(a, IF d < 0 THEN (-d) % 13 ELSE 0), Digits(b, 0)),
                 IF d < 0 THEN (-d) \div 13 ELSE 0,
                 Digits(c, IF d < 0 THEN 0 ELSE d % 13),
                 IF d < 0 THEN 0 ELSE d \div 13,
                 t, 9 + (IAbs(d) \div 13))
FmaExp(a, b, c, d) ==
    IF d <= -FmaBelow THEN a.e + b.e - 13 ELSE IF d < 0 THEN c.e ELSE a.e + b.e
FmaShift(a, b, c, s, t, d) ==
    IF d >= FmaAbove THEN c ELSE RoundCols(s, FmaCols(a, b, c, t, d), FmaExp(a, b, c, d))
FFma(a, b, c) ==
    IF a.m = 0 \/ b.m = 0 THEN c
    ELSE IF c.m = 0 THEN FMul(a, b)
    ELSE FmaShift(a, b, c, ISign(a.m) * ISign(b.m),
                  ISign(a.m) * ISign(b.m) * ISign(c.m), c.e - (a.e + b.e))

\* One digit of long division (Knuth, algorithm D).  The remainder R < V is
\* a wide number, V has five digits and V[5] >= B / 2; the digit is
\* q = (R * B) \div V, and R * B - q * V the next remainder.  The estimate
\* from the leading digits is never too small, and after at most two
\* steps down (r + 2 * V[5] >= B) it is at most one too large.
TooLarge(q, r, r3, V) == q >= B \/ q * V[4] > r * B + r3
Estimate(q, r, r3, V) ==
    IF ~TooLarge(q, r, r3, V) THEN q
    ELSE IF r + V[5] >= B \/ ~TooLarge(q - 1, r + V[5], r3, V) THEN q - 1
    ELSE q - 2
\* R * B - q * V as a wide number, below 0 if its first limb is
DivCols(R, V, q) ==
    << 0 - q * V[1], (R[3] % B) - q * V[2], (R[3] \div B) - q * V[3],
       (R[2] % B) - q * V[4], (R[2] \div B) - q * V[5], R[1] >>
DivLimbs(c) ==
    Norm3(((c[5] % B) + (c[4] \div B)) + B * (c[6] + (c[5] \div B)),
          ((c[3] % B) + (c[2] \div B)) + B * ((c[4] % B) + (c[3] \div B)),
          (c[1] % B) + B * ((c[2] % B) + (c[1] \div B)))
DivCheck(T, R, V, q) ==
    IF T[1] >= 0 THEN << q, T >> ELSE << q - 1, DivLimbs(DivCols(R, V, q - 1)) >>
DivTry(R, V, q) == DivCheck(DivLimbs(DivCols(R, V, q)), R, V, q)
DivDigit(R, V) ==
    DivTry(R, V, Estimate((R[1] * B + (R[2] \div B)) \div V[5],
                          (R[1] * B + (R[2] \div B)) % V[5], R[2] % B, V))

\* one more digit of the quotient: << digits (least significant first),
\* remainder >>, and the five digits of a quotient
DivPush(qr, Q) == << << qr[1] >> \o Q, qr[2] >>
DivNext(QR, V) == DivPush(DivDigit(QR[2], V), QR[1])
RECURSIVE DivDigits(_, _)
DivDigits(QR, V) == IF Len(QR[1]) = 5 THEN QR ELSE DivDigits(DivNext(QR, V), V)

DivRound(s, QR, e) ==
    Round3(s, << QR[1][5], QR[1][4] * B + QR[1][3], QR[1][2] * B + QR[1][1] >>, e,
           QR[2] # << 0, 0, 0 >>)

\* b is not zero; the mantissa of a times 2^11 is below that of b times 2^12
FDiv(a, b) ==
    IF a.m = 0 THEN Zero
    ELSE IF b = One THEN a
    ELSE DivRound(ISign(a.m) * ISign(b.m),
                  DivDigits(<< << >>, ShrBits(<< IAbs(a.m), a.l, 0 >>, 15) >>,
                            Digits(b, 12)),
                  a.e - b.e - 64)
FromRatio(n, d) == FDiv(FromInt(n), FromInt(d))

\* float('inf'): larger than every number the model computes
Inf == [m |-> Limb, l |-> 0, e |-> 2 ^ 20]

\* a binary64 number given by its two mantissa limbs and its exponent
Dbl(m, l, e) == [m |-> m, l |-> l, e |-> e]

\* pow_log_data: ln 2 in two parts, the polynomial A, and for each of the 128
\* intervals of [OFF, 2 * OFF) the row << invc, logc, logctail >>: invc is near
\* 1 / c for the centre c of the interval, logc + logctail near log(c)
Ln2hi == Dbl(93032639, 49952768, -53)
Ln2lo == Dbl(129816036, 63399728, -97)
LogA == << Dbl(-67108864, 0, -53),
          Dbl(-89478485, 22369632, -53),
          Dbl(67108864, 6, -53),
          Dbl(107374182, 22631758, -53),
          Dbl(-89478485, 19506298, -53),
          Dbl(-76699366, 55068137, -52),
          Dbl(67111650, 52838339, -52) >>
LogTab == <<
    << Dbl(94896128, 0, -52), Dbl(-93003964, 45729792, -54), Dbl(112003338, 3626624, -100) >>,
    << Dbl(94371840, 0, -52), Dbl(-91516783, 56100864, -54), Dbl(-120144438, 14743328, -98) >>,
    << Dbl(93847552, 0, -52), Dbl(-90021317, 54876160, -54), Dbl(-81307957, 28725357, -97) >>,
    << Dbl(93323264, 0, -52), Dbl(-88517473, 53344256, -54), Dbl(-94452007, 45115349, -101) >>,
    << Dbl(92798976, 0, -52), Dbl(-87005157, 24606720, -54), Dbl(-84335204, 53034720, -99) >>,
    << Dbl(92274688, 0, -52), Dbl(-85484272, 35414016, -54), Dbl(83233746, 5014732, -98) >>,
    << Dbl(91750400, 0, -52), Dbl(-83954721, 42379264, -54), Dbl(118537467, 25299770, -102) >>,
    << Dbl(91226112, 0, -52), Dbl(-82416405, 23676928, -54), Dbl(70021537, 38900832, -97) >>,
    << Dbl(90701824, 0, -52), Dbl(-80869222, 43548672, -54), Dbl(89543541, 12943506, -97) >>,
    << Dbl(90177536, 0, -52), Dbl(-79313070, 48308224, -54), Dbl(94291878, 28781528, -97) >>,
    << Dbl(89653248, 0, -52), Dbl(-77747844, 64915456, -54), Dbl(91391277, 47165503, -98) >>,
    << Dbl(89653248, 0, -52), Dbl(-77747844, 64915456, -54), Dbl(91391277, 47165503, -98) >>,
    << Dbl(89128960, 0, -52), Dbl(-76173438, 63928320, -54), Dbl(-93751562, 5495414, -98) >>,
    << Dbl(88604672, 0, -52), Dbl(-74589744, 23697408, -54), Dbl(-132902682, 15160324, -98) >>,
    << Dbl(88080384, 0, -52), Dbl(-72996650, 61581312, -54), Dbl(130544012, 58894576, -98) >>,
    << Dbl(87556096, 0, -52), Dbl(-71394046, 28198912, -54), Dbl(-95039807, 17128038, -97) >>,
    << Dbl(87031808, 0, -52), Dbl(-69781816, 41127936, -54), Dbl(-119208863, 49545998, -99) >>,
    << Dbl(86507520, 0, -52), Dbl(-68159845, 11849728, -54), Dbl(-68005415, 49556863, -100) >>,
    << Dbl(86507520, 0, -52), Dbl(-68159845, 11849728, -54), Dbl(-68005415, 49556863, -100) >>,
    << Dbl(85983232, 0, -52), Dbl(-133056027, 22953984, -55), Dbl(123062954, 60374151, -99) >>,
    << Dbl(85458944, 0, -52), Dbl(-129772402, 64774144, -55), Dbl(113880551, 8826660, -97) >>,
    << Dbl(84934656, 0, -52), Dbl(-126468571, 36368384, -55), Dbl(-97244117, 4194064, -98) >>,
    << Dbl(84410368, 0, -52), Dbl(-123144282, 55558144, -55), Dbl(74359918, 63596571, -97) >>,
    << Dbl(83886080, 0, -52), Dbl(-119799281, 60465152, -55), Dbl(98456538, 10454068, -97) >>,
    << Dbl(83886080, 0, -52), Dbl(-119799281, 60465152, -55), Dbl(98456538, 10454068, -97) >>,
    << Dbl(83361792, 0, -52), Dbl(-116433309, 2985984, -55), Dbl(106146828, 25933711, -98) >>,
    << Dbl(82837504, 0, -52), Dbl(-113046099, 41992192, -55), Dbl(110336207, 63803494, -104) >>,
    << Dbl(82313216, 0, -52), Dbl(-109637383, 65187840, -55), Dbl(-90380599, 4637162, -97) >>,
    << Dbl(82313216, 0, -52), Dbl(-109637383, 65187840, -55), Dbl(-90380599, 4637162, -97) >>,
    << Dbl(81788928, 0, -52), Dbl(-106206887, 16011264, -55), Dbl(-112490049, 12702947, -97) >>,
    << Dbl(81264640, 0, -52), Dbl(-102754329, 18927616, -55), Dbl(116355039, 64748041, -97) >>,
    << Dbl(80740352, 0, -52), Dbl(-99279424, 34660352, -55), Dbl(116843548, 39012952, -97) >>,
    << Dbl(80740352, 0, -52), Dbl(-99279424, 34660352, -55), Dbl(116843548, 39012952, -97) >>,
    << Dbl(80216064, 0, -52), Dbl(-95781881, 52023296, -55), Dbl(-70851240, 62055014, -98) >>,
    << Dbl(79691776, 0, -52), Dbl(-92261404, 10981376, -55), Dbl(-128422119, 51400761, -98) >>,
    << Dbl(79691776, 0, -52), Dbl(-92261404, 10981376, -55), Dbl(-128422119, 51400761, -98) >>,
    << Dbl(79167488, 0, -52), Dbl(-88717688, 60928000, -55), Dbl(-70755044, 482191, -97) >>,
    << Dbl(78643200, 0, -52), Dbl(-85150427, 13336576, -55), Dbl(96677976, 20281404, -98) >>,
    << Dbl(78643200, 0, -52), Dbl(-85150427, 13336576, -55), Dbl(96677976, 20281404, -98) >>,
    << Dbl(78118912, 0, -52), Dbl(-81559304, 2002944, -55), Dbl(73277843, 19354682, -100) >>,
    << Dbl(77594624, 0, -52), Dbl(-77943998, 2093056, -55), Dbl(-86199301, 57787400, -97) >>,
    << Dbl(77070336, 0, -52), Dbl(-74304181, 19881984, -55), Dbl(-127936774, 1155990, -97) >>,
    << Dbl(77070336, 0, -52), Dbl(-74304181, 19881984, -55), Dbl(-127936774, 1155990, -97) >>,
    << Dbl(76546048, 0, -52), Dbl(-70639519, 13668352, -55), Dbl(110781858, 15227892, -99) >>,
    << Dbl(76546048, 0, -52), Dbl(-70639519, 13668352, -55), Dbl(110781858, 15227892, -99) >>,
    << Dbl(76021760, 0, -52), Dbl(-133899340, 31186944, -56), Dbl(-90002711, 10695666, -97) >>,
    << Dbl(75497472, 0, -52), Dbl(-126468571, 36372480, -56), Dbl(109906698, 49283132, -97) >>,
    << Dbl(75497472, 0, -52), Dbl(-126468571, 36372480, -56), Dbl(109906698, 49283132, -97) >>,
    << Dbl(74973184, 0, -52), Dbl(-118986019, 56344576, -56), Dbl(-121837014, 6274566, -98) >>,
    << Dbl(74448896, 0, -52), Dbl(-111450958, 38461440, -56), Dbl(89017722, 6007496, -97) >>,
    << Dbl(74448896, 0, -52), Dbl(-111450958, 38461440, -56), Dbl(89017722, 6007496, -97) >>,
    << Dbl(73924608, 0, -52), Dbl(-103862645, 36806656, -56), Dbl(81726035, 19879528, -98) >>,
    << Dbl(73924608, 0, -52), Dbl(-103862645, 36806656, -56), Dbl(81726035, 19879528, -98) >>,
    << Dbl(73400320, 0, -52), Dbl(-96220322, 48586752, -56), Dbl(-94752242, 20149210, -97) >>,
    << Dbl(72876032, 0, -52), Dbl(-88523215, 50733056, -56), Dbl(130062040, 29777495, -98) >>,
    << Dbl(72876032, 0, -52), Dbl(-88523215, 50733056, -56), Dbl(130062040, 29777495, -98) >>,
    << Dbl(72351744, 0, -52), Dbl(-80770533, 35381248, -56), Dbl(118994611, 16323551, -97) >>,
    << Dbl(72351744, 0, -52), Dbl(-80770533, 35381248, -56), Dbl(118994611, 16323551, -97) >>,
    << Dbl(71827456, 0, -52), Dbl(-72961467, 44269568, -56), Dbl(85923741, 42967817, -98) >>,
    << Dbl(71303168, 0, -52), Dbl(-130190384, 1146880, -57), Dbl(123103136, 53907089, -97) >>,
    << Dbl(71303168, 0, -52), Dbl(-130190384, 1146880, -57), Dbl(123103136, 53907089, -97) >>,
    << Dbl(70778880, 0, -52), Dbl(-114341724, 18448384, -57), Dbl(119578297, 30830668, -98) >>,
    << Dbl(70778880, 0, -52), Dbl(-114341724, 18448384, -57), Dbl(119578297, 30830668, -98) >>,
    << Dbl(70254592, 0, -52), Dbl(-98375229, 36880384, -57), Dbl(-121573773, 15901166, -97) >>,
    << Dbl(70254592, 0, -52), Dbl(-98375229, 36880384, -57), Dbl(-121573773, 15901166, -97) >>,
    << Dbl(69730304, 0, -52), Dbl(-82289134, 33472512, -57), Dbl(88124925, 19332778, -100) >>,
    << Dbl(69730304, 0, -52), Dbl(-82289134, 33472512, -57), Dbl(88124925, 19332778, -100) >>,
    << Dbl(69206016, 0, -52), Dbl(-132163267, 41418752, -58), Dbl(-106957215, 8260068, -97) >>,
    << Dbl(69206016, 0, -52), Dbl(-132163267, 41418752, -58), Dbl(-106957215, 8260068, -97) >>,
    << Dbl(68681728, 0, -52), Dbl(-99501761, 64323584, -58), Dbl(-102978852, 66758201, -97) >>,
    << Dbl(68157440, 0, -52), Dbl(-133179948, 16515072, -59), Dbl(-130522941, 47425180, -102) >>,
    << Dbl(68157440, 0, -52), Dbl(-133179948, 16515072, -59), Dbl(-130522941, 47425180, -102) >>,
    << Dbl(67633152, 0, -52), Dbl(-133696154, 51380224, -60), Dbl(-108564419, 31080676, -98) >>,
    << Dbl(67633152, 0, -52), Dbl(-133696154, 51380224, -60), Dbl(-108564419, 31080676, -98) >>,
    << Dbl(67108864, 0, -52), Zero, Zero >>,
    << Dbl(67108864, 0, -52), Zero, Zero >>,
    << Dbl(133169152, 0, -53), Dbl(67372381, 25755648, -59), Dbl(-70376166, 27077608, -98) >>,
    << Dbl(132120576, 0, -53), Dbl(67638678, 9666560, -58), Dbl(-83302081, 48429010, -97) >>,
    << Dbl(131072000, 0, -53), Dbl(101861706, 13172736, -58), Dbl(-111685260, 39455796, -97) >>,
    << Dbl(130023424, 0, -53), Dbl(68179810, 31932416, -57), Dbl(71594007, 15849299, -99) >>,
    << Dbl(128974848, 0, -53), Dbl(85568437, 3014656, -57), Dbl(-117808349, 29228328, -97) >>,
    << Dbl(127926272, 0, -53), Dbl(103099013, 10469376, -57), Dbl(-106849652, 5908093, -98) >>,
    << Dbl(126877696, 0, -53), Dbl(120773875, 31309824, -57), Dbl(-110771345, 64497671, -98) >>,
    << Dbl(126353408, 0, -53), Dbl(129666160, 442368, -57), Dbl(-126111635, 63519611, -99) >>,
    << Dbl(125304832, 0, -53), Dbl(73780980, 21389312, -56), Dbl(-88905557, 34447003, -97) >>,
    << Dbl(124256256, 0, -53), Dbl(82804073, 64086016, -56), Dbl(120723369, 31149783, -97) >>,
    << Dbl(123207680, 0, -53), Dbl(91903635, 26714112, -56), Dbl(-119161231, 6102302, -97) >>,
    << Dbl(122683392, 0, -53), Dbl(96482498, 48939008, -56), Dbl(117941098, 27127090, -101) >>,
    << Dbl(121634816, 0, -53), Dbl(105699223, 22626304, -56), Dbl(79976206, 45959130, -97) >>,
    << Dbl(120586240, 0, -53), Dbl(114995747, 28139520, -56), Dbl(-82059274, 66545893, -98) >>,
    << Dbl(120061952, 0, -53), Dbl(119674368, 29114368, -56), Dbl(93434993, 39496915, -97) >>,
    << Dbl(119013376, 0, -53), Dbl(129093216, 50995200, -56), Dbl(-124787243, 65422816, -97) >>,
    << Dbl(118489088, 0, -53), Dbl(133833806, 31186944, -56), Dbl(-88946067, 60885757, -97) >>,
    << Dbl(117440512, 0, -53), Dbl(71689120, 36167680, -55), Dbl(75226675, 36505586, -97) >>,
    << Dbl(116916224, 0, -53), Dbl(74091231, 35909632, -55), Dbl(120185745, 3709236, -97) >>,
    << Dbl(115867648, 0, -53), Dbl(78927939, 8814592, -55), Dbl(82271026, 58832033, -99) >>,
    << Dbl(115343360, 0, -53), Dbl(81362732, 1413120, -55), Dbl(93055496, 55276169, -103) >>,
    << Dbl(114294784, 0, -53), Dbl(86265696, 53719040, -55), Dbl(90234453, 16627320, -97) >>,
    << Dbl(113770496, 0, -53), Dbl(88734073, 10596352, -55), Dbl(93125177, 23690695, -97) >>,
    << Dbl(112721920, 0, -53), Dbl(93705135, 42733568, -55), Dbl(108257995, 3944056, -98) >>,
    << Dbl(112197632, 0, -53), Dbl(96208034, 58028032, -55), Dbl(-88367993, 27009505, -97) >>,
    << Dbl(111673344, 0, -53), Dbl(98722657, 21254144, -55), Dbl(-119112732, 9519877, -98) >>,
    << Dbl(110624768, 0, -53), Dbl(103787514, 54067200, -55), Dbl(-97473834, 48835793, -99) >>,
    << Dbl(110100480, 0, -53), Dbl(106337975, 16187392, -55), Dbl(100436502, 10551151, -99) >>,
    << Dbl(109051904, 0, -53), Dbl(111475535, 9101312, -55), Dbl(-102535380, 5644649, -97) >>,
    << Dbl(108527616, 0, -53), Dbl(114062869, 56348672, -55), Dbl(-118317907, 44884394, -99) >>,
    << Dbl(108003328, 0, -53), Dbl(116662734, 3923968, -55), Dbl(-122876182, 22287030, -97) >>,
    << Dbl(107479040, 0, -53), Dbl(119275249, 49287168, -55), Dbl(-75177137, 26618834, -100) >>,
    << Dbl(106430464, 0, -53), Dbl(124538732, 13930496, -55), Dbl(-113232573, 51753013, -97) >>,
    << Dbl(105906176, 0, -53), Dbl(127189951, 65474560, -55), Dbl(75794904, 4322352, -103) >>,
    << Dbl(105381888, 0, -53), Dbl(129854329, 14483456, -55), Dbl(-109593945, 29068817, -103) >>,
    << Dbl(104857600, 0, -53), Dbl(132531995, 11776000, -55), Dbl(116587314, 34398000, -98) >>,
    << Dbl(103809024, 0, -53), Dbl(68963864, 5068800, -54), Dbl(103233221, 49106577, -100) >>,
    << Dbl(103284736, 0, -53), Dbl(70323033, 56713216, -54), Dbl(96871109, 37546729, -97) >>,
    << Dbl(102760448, 0, -53), Dbl(71689120, 36169728, -54), Dbl(-117982104, 61206556, -97) >>,
    << Dbl(102236160, 0, -53), Dbl(73062194, 61667328, -54), Dbl(115782525, 61150849, -97) >>,
    << Dbl(101711872, 0, -53), Dbl(74442328, 56256512, -54), Dbl(120175444, 21478839, -97) >>,
    << Dbl(101187584, 0, -53), Dbl(75829595, 17741824, -54), Dbl(111277998, 38189802, -99) >>,
    << Dbl(100139008, 0, -53), Dbl(78625823, 14454784, -54), Dbl(111623826, 38798580, -97) >>,
    << Dbl(99614720, 0, -53), Dbl(80034936, 30629888, -54), Dbl(-104373940, 52509880, -97) >>,
    << Dbl(99090432, 0, -53), Dbl(81451485, 46010368, -54), Dbl(73118572, 15824840, -98) >>,
    << Dbl(98566144, 0, -53), Dbl(82875549, 53686272, -54), Dbl(101635373, 33996124, -98) >>,
    << Dbl(98041856, 0, -53), Dbl(84307208, 64350208, -54), Dbl(104402363, 9494685, -99) >>,
    << Dbl(97517568, 0, -53), Dbl(85746544, 41011200, -54), Dbl(-130675586, 23582325, -97) >>,
    << Dbl(96993280, 0, -53), Dbl(87193639, 35074048, -54), Dbl(-126362182, 51042468, -97) >>,
    << Dbl(96468992, 0, -53), Dbl(88648577, 54042624, -54), Dbl(128949280, 23381849, -97) >>,
    << Dbl(95944704, 0, -53), Dbl(90111444, 63492096, -54), Dbl(132873083, 39665903, -98) >>,
    << Dbl(95420416, 0, -53), Dbl(91582327, 56188928, -54), Dbl(-109234818, 10773980, -99) >> >>

\* exp_data: 128 / ln 2, the shift 1.5 * 2^52 that rounds to a whole number,
\* -ln 2 / 128 in two parts, the polynomial C2 .. C5, and for j in 0 .. 127 the
\* row << tail, scale >> with scale + tail near 2^(j / 128)
InvLn2N == Dbl(96817625, 19628798, -45)
Shift == Dbl(100663296, 0, 0)
NegLn2hiN == Dbl(-93032639, 49938432, -60)
NegLn2loN == Dbl(-121497263, 10369850, -99)
ExpC2 == Dbl(134217727, 67108285, -54)
ExpC3 == Dbl(89478485, 22369340, -55)
ExpC4 == Dbl(89478515, 51850129, -57)
ExpC5 == Dbl(71582809, 61132823, -59)
ExpTab == <<
    << Zero, Dbl(67108864, 0, -52) >>,
    << Dbl(114217926, 42516334, -106), Dbl(67473258, 33239861, -52) >>,
    << Dbl(-72877287, 14212189, -108), Dbl(67839631, 41386081, -52) >>,
    << Dbl(-68656772, 8873681, -106), Dbl(68207994, 7241605, -52) >>,
    << Dbl(120886413, 23590419, -107), Dbl(68578356, 51742068, -52) >>,
    << Dbl(-116629512, 66686714, -107), Dbl(68950730, 31323870, -52) >>,
    << Dbl(71160728, 31901793, -109), Dbl(69325126, 7707592, -52) >>,
    << Dbl(69794070, 53728153, -106), Dbl(69701554, 46592899, -52) >>,
    << Dbl(99002775, 25394029, -106), Dbl(70080027, 16353551, -52) >>,
    << Dbl(128796324, 50196476, -107), Dbl(70460554, 57821175, -52) >>,
    << Dbl(128946012, 3120337, -112), Dbl(70843148, 47436194, -52) >>,
    << Dbl(-109104418, 26242571, -109), Dbl(71227819, 67031835, -52) >>,
    << Dbl(-89494666, 36683022, -106), Dbl(71614580, 1203025, -52) >>,
    << Dbl(-69221347, 5171797, -110), Dbl(72003440, 7090636, -52) >>,
    << Dbl(-74598638, 30798870, -106), Dbl(72394411, 44641760, -52) >>,
    << Dbl(70580474, 22828463, -107), Dbl(72787506, 10849873, -52) >>,
    << Dbl(-67552634, 44405576, -107), Dbl(73182735, 8212859, -52) >>,
    << Dbl(-130546709, 31339069, -107), Dbl(73580110, 9211370, -52) >>,
    << Dbl(115499791, 51598271, -107), Dbl(73979642, 57658229, -52) >>,
    << Dbl(-95840029, 34728742, -106), Dbl(74381345, 285908, -52) >>,
    << Dbl(112934351, 37367648, -106), Dbl(74785228, 23640490, -52) >>,
    << Dbl(-133816498, 59127965, -107), Dbl(75191304, 50125085, -52) >>,
    << Dbl(110874705, 10929037, -107), Dbl(75599586, 6458582, -52) >>,
    << Dbl(69108076, 14943357, -107), Dbl(76010084, 25025686, -52) >>,
    << Dbl(94617464, 61384852, -106), Dbl(76422811, 41247288, -52) >>,
    << Dbl(98010684, 41175165, -107), Dbl(76837779, 62039615, -52) >>,
    << Dbl(68274918, 2090994, -107), Dbl(77255001, 31620317, -52) >>,
    << Dbl(-95297231, 57739358, -106), Dbl(77674488, 32859009, -52) >>,
    << Dbl(79558747, 17410865, -107), Dbl(78096253, 18865889, -52) >>,
    << Dbl(-122185414, 40878074, -112), Dbl(78520308, 14342544, -52) >>,
    << Dbl(114155676, 34343604, -107), Dbl(78946665, 48497419, -52) >>,
    << Dbl(126166178, 30329743, -109), Dbl(79375338, 20852566, -52) >>,
    << Dbl(80960851, 28355510, -107), Dbl(79806338, 36812565, -52) >>,
    << Dbl(93356152, 44856396, -107), Dbl(80239679, 5036081, -52) >>,
    << Dbl(133647959, 30668874, -107), Dbl(80675372, 40113919, -52) >>,
    << Dbl(-94953486, 59661060, -107), Dbl(81113431, 59940849, -52) >>,
    << Dbl(-76725107, 4935784, -106), Dbl(81553869, 54176203, -52) >>,
    << Dbl(-104988166, 55651726, -106), Dbl(81996699, 17160294, -52) >>,
    << Dbl(-74742287, 43267794, -108), Dbl(82441933, 15048695, -52) >>,
    << Dbl(-105268844, 63838997, -106), Dbl(82889584, 51620069, -52) >>,
    << Dbl(90690089, 53103725, -107), Dbl(83339667, 1192994, -52) >>,
    << Dbl(-79992862, 36202890, -106), Dbl(83792193, 11304988, -52) >>,
    << Dbl(-103408594, 1542491, -110), Dbl(84247176, 32976426, -52) >>,
    << Dbl(-118171353, 55155227, -108), Dbl(84704630, 22063255, -52) >>,
    << Dbl(81328984, 12758033, -111), Dbl(85164568, 6392109, -52) >>,
    << Dbl(93946446, 50750703, -106), Dbl(85627003, 18677847, -52) >>,
    << Dbl(129185910, 44106617, -109), Dbl(86091949, 29441232, -52) >>,
    << Dbl(83878799, 51319344, -106), Dbl(86559420, 14144478, -52) >>,
    << Dbl(94647214, 58372016, -108), Dbl(87029429, 20326951, -52) >>,
    << Dbl(80179066, 55894135, -106), Dbl(87501990, 33414413, -52) >>,
    << Dbl(-132451584, 7447438, -107), Dbl(87977117, 43855015, -52) >>,
    << Dbl(-100119351, 9675593, -107), Dbl(88454824, 47146562, -52) >>,
    << Dbl(-104313263, 17774687, -108), Dbl(88935125, 43863938, -52) >>,
    << Dbl(-92574139, 8084726, -107), Dbl(89418034, 39686671, -52) >>,
    << Dbl(80560454, 16635790, -106), Dbl(89903565, 45426650, -52) >>,
    << Dbl(115748299, 59415301, -108), Dbl(90391733, 9947133, -52) >>,
    << Dbl(68745336, 35410953, -106), Dbl(90882551, 21517353, -52) >>,
    << Dbl(87155028, 1689322, -112), Dbl(91376034, 39405239, -52) >>,
    << Dbl(84720010, 56934453, -106), Dbl(91872197, 28123464, -52) >>,
    << Dbl(-121180824, 26834591, -107), Dbl(92371054, 24566793, -52) >>,
    << Dbl(-118288718, 66014632, -107), Dbl(92872620, 3822981, -52) >>,
    << Dbl(-85253666, 19655086, -107), Dbl(93376909, 13419296, -52) >>,
    << Dbl(-83081054, 5658712, -106), Dbl(93883936, 39133733, -52) >>,
    << Dbl(96742048, 8264036, -110), Dbl(94393717, 5024115, -52) >>,
    << Dbl(-82639855, 56500776, -106), Dbl(94906265, 41892813, -52) >>,
    << Dbl(-109357921, 53787010, -109), Dbl(95421597, 17554111, -52) >>,
    << Dbl(-81394670, 7186926, -109), Dbl(95939727, 6625839, -52) >>,
    << Dbl(-70717269, 14714961, -107), Dbl(96460670, 22123652, -52) >>,
    << Dbl(-101177631, 39468751, -108), Dbl(96984442, 15490932, -52) >>,
    << Dbl(-96178864, 9141680, -107), Dbl(97511058, 10846580, -52) >>,
    << Dbl(-92687495, 39184010, -107), Dbl(98040533, 37906377, -52) >>,
    << Dbl(69677783, 34198739, -106), Dbl(98572883, 64904511, -52) >>,
    << Dbl(-114079534, 21865757, -108), Dbl(99108124, 65732999, -52) >>,
    << Dbl(87768917, 6799467, -106), Dbl(99646272, 19972402, -52) >>,
    << Dbl(91945066, 64384085, -109), Dbl(100187341, 47140450, -52) >>,
    << Dbl(-103313739, 62115650, -107), Dbl(100731349, 4069906, -52) >>,
    << Dbl(-81423804, 20657972, -106), Dbl(101278310, 21810707, -52) >>,
    << Dbl(-68657422, 35258142, -107), Dbl(101828241, 35899309, -52) >>,
    << Dbl(-87364662, 7493486, -106), Dbl(102381158, 54825709, -52) >>,
    << Dbl(69949910, 51284480, -106), Dbl(102937078, 25847449, -52) >>,
    << Dbl(124636144, 32565940, -107), Dbl(103496016, 36348123, -52) >>,
    << Dbl(-91068455, 12969983, -109), Dbl(104057989, 45433996, -52) >>,
    << Dbl(117285078, 32726852, -108), Dbl(104623014, 18183990, -52) >>,
    << Dbl(-79841257, 52313475, -106), Dbl(105191106, 59899846, -52) >>,
    << Dbl(-124415522, 57417257, -110), Dbl(105762284, 13485541, -52) >>,
    << Dbl(-118029919, 9484633, -109), Dbl(106336562, 63459855, -52) >>,
    << Dbl(-76599496, 49609130, -106), Dbl(106913959, 64900688, -52) >>,
    << Dbl(-91396917, 57052747, -107), Dbl(107494492, 13240250, -52) >>,
    << Dbl(74186506, 59887143, -108), Dbl(108078176, 44298384, -52) >>,
    << Dbl(125078904, 17462203, -109), Dbl(108665030, 31662883, -52) >>,
    << Dbl(-99696904, 39985763, -107), Dbl(109255070, 56485221, -52) >>,
    << Dbl(113713592, 65155541, -107), Dbl(109848315, 4861235, -52) >>,
    << Dbl(-74380404, 62700309, -106), Dbl(110444780, 37627229, -52) >>,
    << Dbl(70454375, 15610322, -106), Dbl(111044484, 53523288, -52) >>,
    << Dbl(85614875, 41114291, -107), Dbl(111647445, 24772031, -52) >>,
    << Dbl(-79164261, 59678132, -107), Dbl(112253679, 64222074, -52) >>,
    << Dbl(117874148, 46871431, -107), Dbl(112863206, 22729645, -52) >>,
    << Dbl(-69133266, 47307258, -106), Dbl(113476042, 26064486, -52) >>,
    << Dbl(-91289173, 48017082, -110), Dbl(114092206, 5182971, -52) >>,
    << Dbl(-69796751, 27719232, -106), Dbl(114711715, 31807802, -52) >>,
    << Dbl(-104185102, 11375412, -109), Dbl(115334588, 50028103, -52) >>,
    << Dbl(-75217050, 56134197, -106), Dbl(115960844, 10552906, -52) >>,
    << Dbl(88077762, 39837133, -108), Dbl(116590500, 4964818, -52) >>,
    << Dbl(-74415870, 43161772, -106), Dbl(117223574, 64429577, -52) >>,
    << Dbl(81505164, 11472051, -108), Dbl(117860087, 25514652, -52) >>,
    << Dbl(129551511, 10485140, -107), Dbl(118500055, 67096698, -52) >>,
    << Dbl(87565300, 17389996, -107), Dbl(119143499, 39309643, -52) >>,
    << Dbl(83061710, 5118567, -109), Dbl(119790437, 452533, -52) >>,
    << Dbl(98224923, 9574760, -109), Dbl(120440887, 15700073, -52) >>,
    << Dbl(-69371424, 63747538, -107), Dbl(121094869, 22922234, -52) >>,
    << Dbl(-132863823, 67107439, -107), Dbl(121752402, 34048380, -52) >>,
    << Dbl(-67333006, 7711049, -106), Dbl(122413506, 887282, -52) >>,
    << Dbl(86565225, 37554087, -108), Dbl(123078199, 16491655, -52) >>,
    << Dbl(-77883272, 4203023, -107), Dbl(123746501, 46760856, -52) >>,
    << Dbl(127308853, 29463212, -107), Dbl(124418432, 64696965, -52) >>,
    << Dbl(84842091, 93003, -107), Dbl(125094012, 50443360, -52) >>,
    << Dbl(-78989377, 62144031, -107), Dbl(125773260, 58432351, -52) >>,
    << Dbl(-105557582, 54988233, -107), Dbl(126456197, 16097577, -52) >>,
    << Dbl(86868248, 3836115, -108), Dbl(127142841, 59457526, -52) >>,
    << Dbl(82934548, 27095665, -107), Dbl(127833214, 63392899, -52) >>,
    << Dbl(-134071459, 64197104, -107), Dbl(128527336, 44339418, -52) >>,
    << Dbl(-124495416, 35878013, -107), Dbl(129225227, 26109937, -52) >>,
    << Dbl(129036048, 27926536, -107), Dbl(129926907, 39934503, -52) >>,
    << Dbl(84600112, 61467442, -107), Dbl(130632397, 57391767, -52) >>,
    << Dbl(110701132, 30508526, -107), Dbl(131341718, 57558336, -52) >>,
    << Dbl(-126742201, 3924973, -107), Dbl(132054891, 27049492, -52) >>,
    << Dbl(98717395, 26332573, -108), Dbl(132771936, 27168984, -52) >>,
    << Dbl(79786064, 23121033, -110), Dbl(133492874, 59732465, -52) >> >>

(***************************************************************************)
(* x ** y is the C library's pow(x, y) for x above 0 (glibc, the x86-64    *)
(* build for processors with fused multiply-add): exp(y * log(x)) with     *)
(* log(x) in two parts.  The result is within 0.52 units in the last place *)
(* of the power, and not always the binary64 number nearest to it.  The    *)
(* library's code is a sequence of operations on registers; an instruction *)
(* << op, i, j, k >> computes from the registers i, j, k and its result is *)
(* the next register: fma is r[i] * r[j] + r[k] and fms is r[i] * r[j] -   *)
(* r[k], each rounded once, mul, add and sub are *, + and -.               *)
(***************************************************************************)
Exec(ins, r) ==
    IF ins[1] \in { "fma", "fms" }
    THEN FFma(r[ins[2]], r[ins[3]], IF ins[1] = "fma" THEN r[ins[4]] ELSE FNeg(r[ins[4]]))
    ELSE IF ins[1] = "mul" THEN FMul(r[ins[2]], r[ins[3]])
    ELSE FAdd(r[ins[2]], IF ins[1] = "add" THEN r[ins[3]] ELSE FNeg(r[ins[3]]))
\* the program run on the registers r, of which the first `given` were there
\* at the start, until there are `upto` registers: the next instruction is the
\* one whose result is missing, and a run is one half after the other
RECURSIVE Run(_, _, _, _)
Run(prog, r, given, upto) ==
    IF Len(r) + 1 = upto THEN Append(r, Exec(prog[upto - given], r))
    ELSE Run(prog, Run(prog, r, given, (Len(r) + upto) \div 2), given, upto)

MinusOne == FromInt(-1)
\* OFF = 0x3fe6955500000000: bits 32 .. 51 of its fraction
OffTop == 6 * 65536 + 38229

\* log_inline and the product with y.  x = 2^k * z with z in [OFF, 2 * OFF),
\* row is the row of LogTab for the interval of z, and log(x) = k * ln 2 +
\* log(c) + log1p(z / c - 1).  The registers at the start:
\*   1 z   2 k   3 invc   4 logc   5 logctail   6 y   7 -1.0   8 Ln2hi
\*   9 Ln2lo   10 .. 16 A[0] .. A[6]
LogProgram ==
    << << "fma", 1, 3, 7 >>,      \* 17  r = z * invc - 1
       << "fma", 2, 8, 4 >>,      \* 18  t1 = k * Ln2hi + logc
       << "fma", 2, 9, 5 >>,      \* 19  lo1 = k * Ln2lo + logctail
       << "add", 18, 17 >>,       \* 20  t2 = t1 + r
       << "mul", 17, 10 >>,       \* 21  ar = A[0] * r
       << "sub", 18, 20 >>,       \* 22  t1 - t2
       << "add", 22, 17 >>,       \* 23  lo2 = t1 - t2 + r
       << "mul", 17, 21 >>,       \* 24  ar2 = r * ar
       << "mul", 17, 24 >>,       \* 25  ar3 = r * ar2
       << "fms", 21, 17, 24 >>,   \* 26  lo3 = ar * r - ar2
       << "add", 20, 24 >>,       \* 27  hi = t2 + ar2
       << "sub", 20, 27 >>,       \* 28  t2 - hi
       << "add", 28, 24 >>,       \* 29  lo4 = t2 - hi + ar2
       << "fma", 17, 16, 15 >>,   \* 30  A[5] + r * A[6]
       << "fma", 17, 14, 13 >>,   \* 31  A[3] + r * A[4]
       << "fma", 17, 12, 11 >>,   \* 32  A[1] + r * A[2]
       << "fma", 30, 24, 31 >>,   \* 33  A[3] + r * A[4] + ar2 * (A[5] + r * A[6])
       << "fma", 24, 33, 32 >>,   \* 34  p / ar3
       << "add", 19, 23 >>,       \* 35  lo1 + lo2
       << "add", 35, 26 >>,       \* 36  lo1 + lo2 + lo3
       << "add", 36, 29 >>,       \* 37  lo1 + lo2 + lo3 + lo4
       << "fma", 25, 34, 37 >>,   \* 38  lo = lo1 + lo2 + lo3 + lo4 + p
       << "add", 27, 38 >>,       \* 39  the log: hi + lo
       << "sub", 27, 39 >>,       \* 40
       << "add", 40, 38 >>,       \* 41  its tail
       << "mul", 6, 39 >>,        \* 42  ehi = y * log
       << "fms", 39, 6, 42 >>,    \* 43  log * y - ehi
       << "fma", 6, 41, 43 >> >>  \* 44  elo = y * tail + (log * y - ehi)
LogRegisters(z, kd, row, y) ==
    << z, kd, row[1], row[2], row[3], y, MinusOne, Ln2hi, Ln2lo >> \o LogA
LogSplit(x, y, k, top) ==
    Run(LogProgram,
        LogRegisters([x EXCEPT !.e = x.e - k], FromInt(k), LogTab[((top % (2 ^ 20)) \div B) + 1],
                     y), 16, 44)
LogTop(x, y, top) == LogSplit(x, y, x.e + MBits - (IF top < 0 THEN 1 ELSE 0), top)
log_inline(x, y) == LogTop(x, y, (x.m \div 64) - 2 ^ 20 - OffTop)

\* exp_inline: exp(x + xtail) = 2^(n / 128) * exp(r) for the whole number n
\* nearest to x * 128 / ln 2 and r = x + xtail - n * ln 2 / 128; row is the
\* row of ExpTab for n % 128.  The registers at the start:
\*   1 x   2 xtail   3 n   4 tail   5 scale   6 NegLn2hiN   7 NegLn2loN
\*   8 .. 11 C2 .. C5
ExpProgram ==
    << << "fma", 3, 6, 1 >>,       \* 12  x - n * ln2hi / 128
       << "fma", 3, 7, 12 >>,      \* 13  r = x - n * ln 2 / 128
       << "add", 2, 13 >>,         \* 14  r += xtail
       << "fma", 14, 9, 8 >>,      \* 15  C2 + r * C3
       << "add", 4, 14 >>,         \* 16  tail + r
       << "mul", 14, 14 >>,        \* 17  r2 = r * r
       << "fma", 14, 11, 10 >>,    \* 18  C4 + r * C5
       << "fma", 15, 17, 16 >>,    \* 19  tail + r + r2 * (C2 + r * C3)
       << "mul", 17, 17 >>,        \* 20  r2 * r2
       << "fma", 18, 20, 19 >>,    \* 21  tmp
       << "fma", 21, 5, 5 >> >>    \* 22  scale + scale * tmp
ExpRegisters(x, xtail, n, row) ==
    << x, xtail, FromInt(n), row[1], [row[2] EXCEPT !.e = row[2].e + (n \div 128)],
       NegLn2hiN, NegLn2loN, ExpC2, ExpC3, ExpC4, ExpC5 >>
ExpReduce(x, xtail, n) ==
    Run(ExpProgram, ExpRegisters(x, xtail, n, ExpTab[(n % 128) + 1]), 11, 22)[22]
\* kd = x * InvLn2N + Shift is 1.5 * 2^52 + n
ExpShifted(x, xtail, kd) == ExpReduce(x, xtail, (kd.m - 3 * (2 ^ 25)) * Limb + kd.l)
exp_inline(x, xtail) ==
    IF x.m = 0 \/ x.e + MBits <= -54 THEN FAdd(One, x)
    ELSE ExpShifted(x, xtail, FFma(x, InvLn2N, Shift))

PowExp(r) == exp_inline(r[42], r[44])
\* pow(1, y) and pow(x, 0) are 1
FPow(x, y) == IF x = One \/ y.m = 0 THEN One ELSE PowExp(log_inline(x, y))

(***************************************************************************)
(* Program constants of calculate_xirr                                     *)
(***************************************************************************)
NewtonMaxIter == 100
BrentMaxIter == 200
GridPoints == 2000
FinePoints == 1000
DaysPerLeapCycle == 4 * 365 + 1
\* a datetime is a number of seconds; pd.to_datetime(date) and a date given
\* without a time of day are the midnight the day begins with
SecondsPerDay == 24 * 60 * 60
Timestamp(day) == day * SecondsPerDay

ClipLo == FromRatio(-9999, 10000)
ClipHi == FromInt(100)
\* the initial guesses with the first two swapped
GuessesFromZero == << Zero, FromRatio(1, 10), FromRatio(-1, 2), FromRatio(1, 2), FromInt(1) >>
Guesses == << FromRatio(1, 10), Zero, FromRatio(-1, 2), FromRatio(1, 2), One >>
NewtonTol == FromRatio(1, 1000000)
AcceptNpv == One
AcceptLo == FromRatio(-99, 100)
AcceptHi == FromInt(10)
Lowers == << FromRatio(-999, 1000), FromRatio(-99, 100), FromRatio(-95, 100) >>
Uppers == << FromInt(10), FromInt(5), FromInt(2) >>
BrentXtol == FromRatio(1, 1000000)
\* scipy's default rtol, 4 * machine epsilon = 2^-50
BrentRtol == [m |-> Limb, l |-> 0, e |-> -102]
GridLo == FromRatio(-99, 100)
GridHi == FromInt(5)
RefineBelow == FromInt(100)
FineHalfWidth == FromRatio(1, 2)
\* a classification threshold of two million
ExtremeAboveMillions == FromInt(2000000)
ExtremeAbove == FromInt(1000)

None == [none |-> TRUE]
Pending == [kind |-> "pending"]
Returned(rate, stage) == [kind |-> "rate", rate |-> rate, stage |-> stage]
ValueError(msg) == [kind |-> "ValueError", msg |-> msg]
\* what frame[key] raises for a frame that has no such column
KeyError(key) == [kind |-> "KeyError", key |-> key]
\* a pandas DataFrame of transactions: its columns, and its rows in order
Frame(rows) == [columns |-> << "date", "amount" >>, rows |-> rows]
\* pd.DataFrame([]): the frame built from no row has no column
NoColumns == [columns |-> << >>, rows |-> << >>]
\* the rows of a frame: len(frame), frame.iterrows()
Rows(frame) == frame.rows

(***************************************************************************)
(* Inputs                                                                  *)
(***************************************************************************)
MaxLen == 2
MaxCycles == 1
MaxCalls == 1

\* series of calculate_xirr: the lists over Amounts that are too short to be
\* solved, and five pairs: a million that came down to 1, a payout of a
\* billionth, a gain of a half, a stake that came back as it was, and a stake
\* of 100 that came back as 30000, given with the payout first
Amounts == { FromInt(30000) }
NearTotalLoss == << FromInt(-1000000), FromInt(1) >>
TinyPayout == << FromInt(-1), FromRatio(1, 1000000000) >>
HalfGain == << FromInt(-100), FromInt(150) >>
BreakEven == << FromInt(-100), FromInt(100) >>
Windfall == << FromInt(30000), FromInt(-100) >>
Pairs == { NearTotalLoss, TinyPayout, HalfGain, BreakEven, Windfall }
Days == { Timestamp(c * DaysPerLeapCycle) : c \in 0..MaxCycles }
SeqsUpTo(S, n) == UNION { [1..l -> S] : l \in 0..n }
CashFlowLists == SeqsUpTo(Amounts, MaxLen - 1) \cup Pairs
\* lists of dates: the earliest date of a list is day 0
DateLists == { d \in SeqsUpTo(Days, MaxLen) : d = << >> \/ \E i \in 1..Len(d) : d[i] = 0 }

VARIABLES
    arg_cash_flows, arg_dates,   \* the caller's lists
    guess,                       \* the caller's initial guess
    pc,                          \* where calculate_xirr is
    cash_flows, dates, years,    \* its locals after sorting
    gi, p0, itr,                 \* Newton: guess index, iterate, iteration
    bi, br,                      \* Brent: bracket index, brentq's locals
    k, best_rate, best_npv,      \* grid search: point index, best so far
    fine_lo, fine_hi,            \* the refinement's range
    outcome,                     \* what the call returned or raised
    calls, prev,                 \* the caller: calls made before, the last one's result
    outflows, inflows,           \* calculate_nifty50_portfolio: its arguments
    nifty_data,
    npc,                         \* where calculate_nifty50_portfolio is
    transactions, ti,            \* its sorted transactions, the one being processed
    total_units, total_invested_amount,
    current_value,
    nifty_result,                \* what it returned
    spc,                         \* where calculate_portfolio_stats is
    arg_current_value,           \* its argument current_value
    stats,                       \* the record it builds and returns, or what it raised
    fetched,                     \* whether it has called fetch_nifty50_data
    session_step, uploaded_files, \* st.session_state: step, uploaded_files,
    pdf_password,                \* pdf_password
    file_uploader,               \* the value of the upload widget
    password_input,              \* the value of the password widget
    processed,                   \* step 4: what process_uploaded_file returned, per file
    rerun                        \* st.rerun() has ended a run, the next has not started

nifty_vars == << outflows, inflows, nifty_data, npc, transactions, ti, total_units,
                 total_invested_amount, current_value, nifty_result >>

stats_vars == << spc, arg_current_value, stats, fetched >>

app_vars == << session_step, uploaded_files, pdf_password, file_uploader, password_input,
              processed, rerun >>

calc_vars == << arg_cash_flows, arg_dates, pc, cash_flows, dates, years, gi, p0, itr,
                bi, br, k, best_rate, best_npv, fine_lo, fine_hi, outcome, calls, prev,
                nifty_vars, stats_vars, guess >>

vars == << arg_cash_flows, arg_dates, pc, cash_flows, dates, years, gi, p0, itr,
           bi, br, k, best_rate, best_npv, fine_lo, fine_hi, outcome, calls, prev,
           nifty_vars, stats_vars, guess, app_vars >>

(***************************************************************************)
(* sorted(zip(dates, cash_flows)): tuples compare by date, then by amount  *)
(***************************************************************************)
Zip(ds, cfs) == [i \in 1..Len(ds) |-> << ds[i], cfs[i] >>]
\* a comparison by date alone
DateLt(a, b) == a[1] < b[1]
\* an order that puts the larger amount of one day first
LargerFirst(a, b) == a[1] < b[1] \/ (a[1] = b[1] /\ FLt(b[2], a[2]))

PairLt(a, b) == a[1] < b[1] \/ (a[1] = b[1] /\ FLt(a[2], b[2]))

\* x goes after every element that is not greater than it (stable)
RECURSIVE Insert(_, _)
Insert(x, s) ==
    IF s = << >> THEN << x >>
    ELSE IF PairLt(x, s[1]) THEN << x >> \o s
    ELSE << s[1] >> \o Insert(x, Tail(s))

RECURSIVE Sorted(_)
Sorted(s) ==
    IF s = << >> THEN << >>
    ELSE Insert(s[Len(s)], Sorted(SubSeq(s, 1, Len(s) - 1)))

\* line 54: timedelta.days is the number of whole days, and days / 365.25
DaysPerYear == FromRatio(DaysPerLeapCycle, 4)
YearsSince(first, d) == FDiv(FromInt((d - first) \div SecondsPerDay), DaysPerYear)

(***************************************************************************)
(* xnpv and xnpv_derivative                                                *)
(***************************************************************************)
Clip(x, lo, hi) == IF FLt(x, lo) THEN lo ELSE IF FLt(hi, x) THEN hi ELSE x

RECURSIVE SumNpv(_, _, _, _)
SumNpv(cfs, yrs, base, n) ==
    IF n = 0 THEN Zero
    ELSE FAdd(SumNpv(cfs, yrs, base, n - 1), FDiv(cfs[n], FPow(base, yrs[n])))

RECURSIVE SumDeriv(_, _, _, _)
SumDeriv(cfs, yrs, base, n) ==
    IF n = 0 THEN Zero
    ELSE FAdd(SumDeriv(cfs, yrs, base, n - 1),
              FDiv(FMul(FNeg(cfs[n]), yrs[n]), FPow(base, FAdd(yrs[n], One))))

xnpv(rate) ==
    SumNpv(cash_flows, years, FAdd(One, Clip(rate, ClipLo, ClipHi)), Len(cash_flows))

xnpv_derivative(rate) ==
    SumDeriv(cash_flows, years, FAdd(One, Clip(rate, ClipLo, ClipHi)), Len(cash_flows))

(***************************************************************************)
(* calculate_xirr, one action per step of the cascade                      *)
(***************************************************************************)
NoBrent == [i |-> 0]

\* the locals of a call that has not started
Fresh ==
    /\ cash_flows = << >>
    /\ dates = << >>
    /\ years = << >>
    /\ gi = 0
    /\ p0 = Zero
    /\ itr = 0
    /\ bi = 0
    /\ br = NoBrent
    /\ k = 0
    /\ best_rate = None
    /\ best_npv = Inf
    /\ fine_lo = Zero
    /\ fine_hi = Zero
    /\ outcome = Pending

\* no benchmark replay is going on
NoReplay ==
    /\ transactions = << >>
    /\ ti = 0
    /\ total_units = Zero
    /\ total_invested_amount = Zero
    /\ current_value = Zero
    /\ nifty_result = Pending

\* calculate_portfolio_stats is not running
NoStats ==
    /\ spc = "idle"
    /\ arg_current_value = Zero
    /\ stats = Pending
    /\ fetched = FALSE

\* line 30: guess=0.1
DefaultGuess == FromRatio(1, 10)

\* a Python str, a value that is not None
Text(s) == [text |-> s]

\* streamlit_app.py, lines 164-169: a new session of the wizard; no widget
\* has a value and no file has been processed
NewSession ==
    /\ session_step = 1
    /\ uploaded_files = << >>
    /\ pdf_password = None
    /\ file_uploader = << >>
    /\ password_input = Text("")
    /\ processed = << >>
    /\ rerun = FALSE

Init ==
    /\ arg_cash_flows \in CashFlowLists
    /\ arg_dates \in DateLists
    /\ guess = DefaultGuess
    /\ pc = "call"
    /\ Fresh
    /\ calls = 0
    /\ prev = None
    /\ outflows = Frame(<< >>)
    /\ inflows = Frame(<< >>)
    /\ nifty_data = None
    /\ npc = "idle"
    /\ NoReplay
    /\ NoStats
    /\ NewSession

LengthMsg == "Cash flows and dates must have the same length"
TooFewMsg == "Need at least 2 cash flows to calculate XIRR"

\* a validation that forgets the check of line 45
LengthMismatchOnly == Len(arg_cash_flows) # Len(arg_dates)

\* lines 42 and 45
InputRejected == Len(arg_cash_flows) # Len(arg_dates) \/ Len(arg_cash_flows) < 2

\* lines 42-46: the two checks that reject the input
Reject ==
    /\ pc = "call"
    /\ InputRejected
    /\ outcome' = IF Len(arg_cash_flows) # Len(arg_dates)
                  THEN ValueError(LengthMsg)
                  ELSE ValueError(TooFewMsg)
    /\ pc' = "done"
    /\ UNCHANGED << arg_cash_flows, arg_dates, cash_flows, dates, years, gi, p0, itr,
                    bi, br, k, best_rate, best_npv, fine_lo, fine_hi, calls, prev,
                    nifty_vars, stats_vars, guess, app_vars >>

\* a sort that writes the sorted amounts back into the caller's list
SortedInPlace(sorted_data) == [i \in 1..Len(sorted_data) |-> sorted_data[i][2]]

\* lines 49-51: sorted() builds a new list and the names dates and cash_flows
\* are rebound to new lists; the caller's list is what it was
CallerCashFlows(sorted_data) == arg_cash_flows

\* lines 48-55: sort, years from the first date; then the first Newton attempt
SortAndStart ==
    /\ pc = "call"
    /\ ~InputRejected
    /\ \E sorted_data \in { Sorted(Zip(arg_dates, arg_cash_flows)) } :
           /\ dates' = [i \in 1..Len(sorted_data) |-> sorted_data[i][1]]
           /\ cash_flows' = [i \in 1..Len(sorted_data) |-> sorted_data[i][2]]
           /\ years' = [i \in 1..Len(sorted_data) |->
                           YearsSince(sorted_data[1][1], sorted_data[i][1])]
           /\ arg_cash_flows' = CallerCashFlows(sorted_data)
    /\ gi' = 1
    /\ p0' = Guesses[1]
    /\ itr' = 0
    /\ pc' = "newton"
    /\ UNCHANGED << arg_dates, bi, br, k, best_rate, best_npv,
                    fine_lo, fine_hi, outcome, calls, prev,
                    nifty_vars, stats_vars, guess, app_vars >>

\* a verification that forgets the range of line 87
AcceptedAnyRate(result) == FLt(FAbs(xnpv(result)), AcceptNpv)

Accepted(result) ==
    /\ FLt(FAbs(xnpv(result)), AcceptNpv)
    /\ FLt(AcceptLo, result)
    /\ FLt(result, AcceptHi)

\* one iteration of scipy.optimize.newton from p: what it does next
NewtonMove(p, n, pnew) ==
    IF FLe(FAbs(FSub(pnew, p)), NewtonTol) THEN [do |-> "return", x |-> pnew]
    ELSE IF n + 1 >= NewtonMaxIter THEN [do |-> "raise", x |-> pnew]
    ELSE [do |-> "iterate", x |-> pnew]

NewtonStep(p, n, fval, fder) ==
    IF fval.m = 0 THEN [do |-> "return", x |-> p]
    ELSE IF fder.m = 0 THEN [do |-> "raise", x |-> p]
    ELSE NewtonMove(p, n, FSub(p, FDiv(fval, fder)))

NewtonIteration(p, n) == NewtonStep(p, n, xnpv(p), xnpv_derivative(p))

\* after a rejected or raising Newton attempt: the next guess, or on to Brent
NextGuess ==
    IF gi < Len(Guesses)
    THEN /\ gi' = gi + 1
         /\ p0' = Guesses[gi + 1]
         /\ itr' = 0
         /\ pc' = "newton"
         /\ UNCHANGED bi
    ELSE /\ pc' = "brent"
         /\ bi' = 1
         /\ UNCHANGED << gi, p0, itr >>

\* lines 77-90
Newton ==
    /\ pc = "newton"
    /\ \E step \in { NewtonIteration(p0, itr) } :
           IF step.do = "iterate"
           THEN /\ p0' = step.x
                /\ itr' = itr + 1
                /\ UNCHANGED << pc, gi, bi, outcome >>
           ELSE IF step.do = "return" /\ Accepted(step.x)
           THEN /\ outcome' = Returned(step.x, "newton")
                /\ pc' = "done"
                /\ UNCHANGED << gi, p0, itr, bi >>
           ELSE /\ NextGuess
                /\ UNCHANGED outcome
    /\ UNCHANGED << arg_cash_flows, arg_dates, cash_flows, dates, years, br, k,
                    best_rate, best_npv, fine_lo, fine_hi, calls, prev,
                    nifty_vars, stats_vars, guess, app_vars >>

(***************************************************************************)
(* Brent's method: scipy.optimize.brentq, one iteration of its loop        *)
(***************************************************************************)
Lower(i) == Lowers[((i - 1) \div Len(Uppers)) + 1]
Upper(i) == Uppers[((i - 1) % Len(Uppers)) + 1]
Two == FromInt(2)
Three == FromInt(3)
Half(x) == FDiv(x, Two)
OppositeSigns(a, b) == a.m # 0 /\ b.m # 0 /\ (a.m < 0) # (b.m < 0)

BrentStart(xa, xb) ==
    [xpre |-> xa, xcur |-> xb, xblk |-> Zero,
     fpre |-> xnpv(xa), fcur |-> xnpv(xb), fblk |-> Zero,
     spre |-> Zero, scur |-> Zero, i |-> 0]

\* the block is reset when the last two points bracket the root
BrentReblock(b) ==
    IF OppositeSigns(b.fpre, b.fcur)
    THEN [b EXCEPT !.xblk = b.xpre, !.fblk = b.fpre,
                   !.spre = FSub(b.xcur, b.xpre), !.scur = FSub(b.xcur, b.xpre)]
    ELSE b

\* xcur is kept the point with the smaller |f|
BrentSwap(b) ==
    IF FLt(FAbs(b.fblk), FAbs(b.fcur))
    THEN [b EXCEPT !.xpre = b.xcur, !.xcur = b.xblk, !.xblk = b.xcur,
                   !.fpre = b.fcur, !.fcur = b.fblk, !.fblk = b.fcur]
    ELSE b

BrentDelta(b) == Half(FAdd(BrentXtol, FMul(BrentRtol, FAbs(b.xcur))))
BrentBisect(b) == Half(FSub(b.xblk, b.xcur))

\* the secant or inverse quadratic step; None when it divides by zero
OrNone(num, den) == IF den.m = 0 THEN None ELSE FDiv(num, den)

\* interpolate: the secant step
BrentSecant(b) ==
    OrNone(FMul(FNeg(b.fcur), FSub(b.xcur, b.xpre)), FSub(b.fcur, b.fpre))

\* extrapolate: the inverse quadratic step from the two divided differences
BrentQuadratic(b, dpre, dblk) ==
    OrNone(FMul(FNeg(b.fcur), FSub(FMul(b.fblk, dblk), FMul(b.fpre, dpre))),
           FMul(FMul(dblk, dpre), FSub(b.fblk, b.fpre)))

BrentDifferences(b, dx1, dx2) ==
    IF dx1.m = 0 \/ dx2.m = 0 THEN None
    ELSE BrentQuadratic(b, FDiv(FSub(b.fpre, b.fcur), dx1),
                           FDiv(FSub(b.fblk, b.fcur), dx2))

BrentTry(b) ==
    IF b.xpre = b.xblk THEN BrentSecant(b)
    ELSE BrentDifferences(b, FSub(b.xpre, b.xcur), FSub(b.xblk, b.xcur))

\* the step lengths (spre, scur) chosen for this iteration
BrentAccept(b, delta, sbis, stry) ==
    IF /\ stry # None
       /\ FLt(FMul(Two, FAbs(stry)),
              FMin(FAbs(b.spre), FSub(FMul(Three, FAbs(sbis)), delta)))
    THEN << b.scur, stry >>
    ELSE << sbis, sbis >>

BrentSteps(b, delta, sbis) ==
    IF FLt(delta, FAbs(b.spre)) /\ FLt(FAbs(b.fcur), FAbs(b.fpre))
    THEN BrentAccept(b, delta, sbis, BrentTry(b))
    ELSE << sbis, sbis >>

\* the next point: a step of scur, or of delta towards the block
BrentPoint(b, delta, sbis, scur) ==
    IF FLt(delta, FAbs(scur)) THEN FAdd(b.xcur, scur)
    ELSE IF sbis.m > 0 THEN FAdd(b.xcur, delta)
    ELSE FSub(b.xcur, delta)

BrentRecord(b, s, xnew) ==
    [do |-> IF b.i + 1 >= BrentMaxIter THEN "raise" ELSE "iterate",
     x |-> xnew,
     b |-> [b EXCEPT !.xpre = b.xcur, !.fpre = b.fcur,
                     !.spre = s[1], !.scur = s[2],
                     !.xcur = xnew, !.fcur = xnpv(xnew),
                     !.i = b.i + 1]]

BrentAdvance(b, delta, sbis, s) ==
    BrentRecord(b, s, BrentPoint(b, delta, sbis, s[2]))

BrentMove(b, delta, sbis) ==
    IF b.fcur.m = 0 \/ FLt(FAbs(sbis), delta)
    THEN [do |-> "return", x |-> b.xcur, b |-> b]
    ELSE BrentAdvance(b, delta, sbis, BrentSteps(b, delta, sbis))

BrentBlocked(b) == BrentMove(b, BrentDelta(b), BrentBisect(b))

BrentIteration(b0) == BrentBlocked(BrentSwap(BrentReblock(b0)))

\* a cascade that goes back to the first bracket after the last one
RetryBrackets ==
    /\ br' = NoBrent
    /\ pc' = "brent"
    /\ bi' = IF bi < Len(Lowers) * Len(Uppers) THEN bi + 1 ELSE 1

\* after a skipped, rejected or raising bracket: the next one, or on to the grid
NextBracket ==
    /\ br' = NoBrent
    /\ IF bi < Len(Lowers) * Len(Uppers)
       THEN /\ bi' = bi + 1
            /\ pc' = "brent"
       ELSE /\ pc' = "grid"
            /\ UNCHANGED bi

\* a test that lets every bracket through
AnyBracket(npv_lower, npv_upper) == TRUE

\* line 99
SignChange(npv_lower, npv_upper) == FMul(npv_lower, npv_upper).m < 0

\* lines 93-99: a bracket is tried only across a sign change
Bracket ==
    /\ pc = "brent"
    /\ \E npv_lower \in { xnpv(Lower(bi)) }, npv_upper \in { xnpv(Upper(bi)) } :
           IF SignChange(npv_lower, npv_upper)
           THEN /\ br' = BrentStart(Lower(bi), Upper(bi))
                /\ pc' = "brentq"
                /\ UNCHANGED bi
           ELSE NextBracket
    /\ UNCHANGED << arg_cash_flows, arg_dates, cash_flows, dates, years, gi, p0, itr,
                    k, best_rate, best_npv, fine_lo, fine_hi, outcome, calls, prev,
                    nifty_vars, stats_vars, guess, app_vars >>

\* a Brent stage that returns its result unverified
VerifiedAlways(result) == TRUE

\* line 101
Verified(result) == FLt(FAbs(xnpv(result)), AcceptNpv)

\* lines 100-104
Brentq ==
    /\ pc = "brentq"
    /\ \E step \in { BrentIteration(br) } :
           IF step.do = "iterate"
           THEN /\ br' = step.b
                /\ UNCHANGED << pc, bi, outcome >>
           ELSE IF step.do = "return" /\ Verified(step.x)
           THEN /\ outcome' = Returned(step.x, "brent")
                /\ pc' = "done"
                /\ UNCHANGED << bi, br >>
           ELSE /\ NextBracket
                /\ UNCHANGED outcome
    /\ UNCHANGED << arg_cash_flows, arg_dates, cash_flows, dates, years, gi, p0, itr,
                    k, best_rate, best_npv, fine_lo, fine_hi, calls, prev,
                    nifty_vars, stats_vars, guess, app_vars >>

(***************************************************************************)
(* Grid search, refinement and the classification of a failure             *)
(***************************************************************************)
\* np.linspace(a, b, n)[i]
Linspace(a, b, n, i) ==
    IF i = n - 1 THEN b
    ELSE FAdd(FMul(FromInt(i), FDiv(FSub(b, a), FromInt(n - 1))), a)

\* line 111: the array np.linspace(-0.99, 5, 2000)
GridRates ==
    [i \in 1..GridPoints |-> Linspace(GridLo, GridHi, GridPoints, i - 1)] \o << >>

\* a search that keeps the rate it evaluated last
Latest(rate, npv) == << rate, npv >>

\* lines 113-116 and 126-129: keep the rate with the smaller |xnpv|
Smaller(rate, npv) ==
    IF FLt(npv, best_npv) THEN << rate, npv >> ELSE << best_rate, best_npv >>

Better(rate) == Smaller(rate, FAbs(xnpv(rate)))

Reasonable(rate, npv) == rate # None /\ FLt(npv, RefineBelow)

\* lines 111-123
Grid ==
    /\ pc = "grid"
    /\ \E b \in { Better(GridRates[k + 1]) } :
           /\ best_rate' = b[1]
           /\ best_npv' = b[2]
           /\ IF k + 1 < GridPoints
              THEN /\ k' = k + 1
                   /\ UNCHANGED << pc, fine_lo, fine_hi >>
              ELSE IF Reasonable(b[1], b[2])
              THEN /\ pc' = "refine"
                   /\ k' = 0
                   /\ fine_lo' = FMax(GridLo, FSub(b[1], FineHalfWidth))
                   /\ fine_hi' = FMin(GridHi, FAdd(b[1], FineHalfWidth))
              ELSE /\ pc' = "classify"
                   /\ UNCHANGED << k, fine_lo, fine_hi >>
    /\ UNCHANGED << arg_cash_flows, arg_dates, cash_flows, dates, years, gi, p0, itr,
                    bi, br, outcome, calls, prev,
                    nifty_vars, stats_vars, guess, app_vars >>

\* lines 124-134
Refine ==
    /\ pc = "refine"
    /\ \E b \in { Better(Linspace(fine_lo, fine_hi, FinePoints, k)) } :
           /\ best_rate' = b[1]
           /\ best_npv' = b[2]
           /\ IF k + 1 < FinePoints
              THEN /\ k' = k + 1
                   /\ UNCHANGED << pc, outcome >>
              ELSE IF Reasonable(b[1], b[2])
              THEN /\ outcome' = Returned(b[1], "grid")
                   /\ pc' = "done"
                   /\ UNCHANGED k
              ELSE /\ pc' = "classify"
                   /\ UNCHANGED << k, outcome >>
    /\ UNCHANGED << arg_cash_flows, arg_dates, cash_flows, dates, years, gi, p0, itr,
                    bi, br, fine_lo, fine_hi, calls, prev,
                    nifty_vars, stats_vars, guess, app_vars >>

ExtremeLossMsg ==
    "Cannot calculate XIRR: Net Present Value is always highly negative. " \o
    "This indicates extreme losses where no discount rate can reconcile the cash flows. " \o
    "The investment has lost significant value."
NoConvergenceMsg ==
    "Could not converge to a solution. This may indicate unusual cash flow patterns."

\* a classification that takes the largest of the three values
MaxPossibleNpv ==
    FMax(FMax(FAbs(xnpv(GridLo)), FAbs(xnpv(GridHi))),
         IF best_rate # None /\ best_rate # Zero THEN best_npv ELSE Inf)

\* lines 137-139; a best_rate of None or 0.0 is falsy and drops best_npv
MinPossibleNpv ==
    LET npv_at_minus_99 == FAbs(xnpv(GridLo))
        npv_at_plus_5 == FAbs(xnpv(GridHi))
    IN  FMin(FMin(npv_at_minus_99, npv_at_plus_5),
             IF best_rate # None /\ best_rate # Zero THEN best_npv ELSE Inf)

\* lines 136-149
Classify ==
    /\ pc = "classify"
    /\ outcome' = IF FLt(ExtremeAbove, MinPossibleNpv)
                  THEN ValueError(ExtremeLossMsg)
                  ELSE ValueError(NoConvergenceMsg)
    /\ pc' = "done"
    /\ UNCHANGED << arg_cash_flows, arg_dates, cash_flows, dates, years, gi, p0, itr,
                    bi, br, k, best_rate, best_npv, fine_lo, fine_hi, calls, prev,
                    nifty_vars, stats_vars, guess, app_vars >>

Next == Reject \/ SortAndStart \/ Newton \/ Bracket \/ Brentq \/ Grid \/ Refine \/ Classify

Spec == Init /\ [][Next]_vars

(***************************************************************************)
(* The loss series over time: -1000000 on day 0 and +1 after LossDays      *)
(* days.  Below two years (730.5 days) no bracket of the Brent stage has a *)
(* sign change; from 731 days on the brackets from -0.999 have one.  The   *)
(* other calls are a list with one date too few and a same-day series that *)
(* the grid search solves.                                                 *)
(***************************************************************************)
LossDays == { 0, 730, 731, 757, 758, 1096, 1108, 1461 }

LossCalls ==
    { << NearTotalLoss, << 0, Timestamp(d) >> >> : d \in LossDays }
        \cup { << NearTotalLoss, << 0 >> >>, << TinyPayout, << 0, 0 >> >> }

InitLoss ==
    /\ \E call \in LossCalls :
           /\ arg_cash_flows = call[1]
           /\ arg_dates = call[2]
    /\ guess = DefaultGuess
    /\ pc = "call"
    /\ Fresh
    /\ calls = 0
    /\ prev = None
    /\ outflows = Frame(<< >>)
    /\ inflows = Frame(<< >>)
    /\ nifty_data = None
    /\ npc = "idle"
    /\ NoReplay
    /\ NoStats
    /\ NewSession

SpecLoss == InitLoss /\ [][Next]_vars

(***************************************************************************)
(* Callers that pass an initial guess of their own, for every series of    *)
(* Spec but the payout of a billionth                                      *)
(***************************************************************************)
GuessArgs == { DefaultGuess, FromRatio(1, 2) }

InitGuess ==
    /\ arg_cash_flows \in CashFlowLists \ { TinyPayout }
    /\ arg_dates \in DateLists
    /\ guess \in GuessArgs
    /\ pc = "call"
    /\ Fresh
    /\ calls = 0
    /\ prev = None
    /\ outflows = Frame(<< >>)
    /\ inflows = Frame(<< >>)
    /\ nifty_data = None
    /\ npc = "idle"
    /\ NoReplay
    /\ NoStats
    /\ NewSession

SpecGuess == InitGuess /\ [][Next]_vars

(***************************************************************************)
(* A caller that, once a call is over, shuffles the same series and calls  *)
(* calculate_xirr again, for every series of Spec but the payout of a      *)
(* billionth                                                               *)
(***************************************************************************)
Shuffles(n) == { f \in Permutations(1..n) : \E i \in 1..n : f[i] # i }

CallShuffled ==
    /\ pc = "done"
    /\ calls < MaxCalls
    /\ Len(arg_cash_flows) = Len(arg_dates)
    /\ \E f \in Shuffles(Len(arg_dates)) :
           /\ arg_dates' = [i \in 1..Len(arg_dates) |-> arg_dates[f[i]]]
           /\ arg_cash_flows' = [i \in 1..Len(arg_dates) |-> arg_cash_flows[f[i]]]
    /\ prev' = [outcome |-> outcome, cash_flows |-> cash_flows, dates |-> dates]
    /\ calls' = calls + 1
    /\ pc' = "call"
    /\ cash_flows' = << >>
    /\ dates' = << >>
    /\ years' = << >>
    /\ gi' = 0
    /\ p0' = Zero
    /\ itr' = 0
    /\ bi' = 0
    /\ br' = NoBrent
    /\ k' = 0
    /\ best_rate' = None
    /\ best_npv' = Inf
    /\ fine_lo' = Zero
    /\ fine_hi' = Zero
    /\ outcome' = Pending
    /\ UNCHANGED << nifty_vars, stats_vars, guess, app_vars >>

NextShuffle == Next \/ CallShuffled

InitShuffle == Init /\ arg_cash_flows # TinyPayout

SpecShuffle == InitShuffle /\ [][NextShuffle]_vars

(***************************************************************************)
(* A caller that, once a call is over, raises the amount of the terminal   *)
(* entry (the last of the sorted series, a positive amount) and calls      *)
(* calculate_xirr again                                                    *)
(***************************************************************************)
RaisedAmounts == { FromInt(150), FromInt(30000) }

CallRaised ==
    /\ pc = "done"
    /\ calls < MaxCalls
    /\ cash_flows # << >>
    /\ cash_flows[Len(cash_flows)].m > 0
    /\ \E j \in 1..Len(arg_dates), amount \in RaisedAmounts :
           /\ arg_dates[j] = dates[Len(dates)]
           /\ arg_cash_flows[j] = cash_flows[Len(cash_flows)]
           /\ FLt(arg_cash_flows[j], amount)
           /\ arg_cash_flows' = [arg_cash_flows EXCEPT ![j] = amount]
    /\ prev' = [outcome |-> outcome, cash_flows |-> cash_flows, dates |-> dates]
    /\ calls' = calls + 1
    /\ pc' = "call"
    /\ cash_flows' = << >>
    /\ dates' = << >>
    /\ years' = << >>
    /\ gi' = 0
    /\ p0' = Zero
    /\ itr' = 0
    /\ bi' = 0
    /\ br' = NoBrent
    /\ k' = 0
    /\ best_rate' = None
    /\ best_npv' = Inf
    /\ fine_lo' = Zero
    /\ fine_hi' = Zero
    /\ outcome' = Pending
    /\ UNCHANGED << arg_dates, nifty_vars, stats_vars, guess, app_vars >>

NextRaise == Next \/ CallRaised

SpecRaise == Init /\ [][NextRaise]_vars

(***************************************************************************)
(* calculate_nifty50_portfolio: the replay of a ledger against the index   *)
(***************************************************************************)
MaxOutflows == 2
MaxInflows == 2

Row(d, a) == [date |-> d, amount |-> a]
Quote(d, c) == [date |-> d, close |-> c]

\* the day the replay is run, the last day of the ledgers
Today == MaxCycles * DaysPerLeapCycle
\* datetime.now(): a time of that day, later than its midnight
Now == Timestamp(Today) + SecondsPerDay \div 2

OutflowRows == { Row(0, FromInt(-1000)), Row(Today, FromInt(-1000)) }
InflowRows == { Row(0, FromInt(500)), Row(Today, FromInt(1050)) }
OutflowFrames == { Frame(rows) : rows \in SeqsUpTo(OutflowRows, MaxOutflows) }
InflowFrames == { Frame(rows) : rows \in SeqsUpTo(InflowRows, MaxInflows) }

\* price series as fetch_nifty50_data returns them, in date order: one that
\* doubles, one without a quote on the ledger's days, one that falls to a
\* thousandth, one that quotes a price of 0
Rising == << Quote(0, FromInt(10)), Quote(Today, FromInt(20)) >>
OffDays == << Quote(-1, FromInt(10)), Quote(2, FromInt(5)), Quote(Today - 1, FromInt(10)) >>
Falling == << Quote(0, FromInt(1000)), Quote(Today, FromInt(1)) >>
ZeroQuote == << Quote(0, Zero), Quote(1, FromInt(10)), Quote(Today, FromInt(10)) >>
PriceTables == { None, << >>, Rising, OffDays }

\* a ledger none of whose payouts precedes its first fund addition
Funded(outs, ins) ==
    \A i \in 1..Len(Rows(ins)) :
        \E j \in 1..Len(Rows(outs)) : Rows(outs)[j].date <= Rows(ins)[i].date

\* the replays: every funded ledger against the first four price series, one
\* fund addition against the falling and the zero price, and two ledgers
\* whose first transaction is a payout
NiftyCalls ==
    { c \in OutflowFrames \X InflowFrames \X PriceTables : Funded(c[1], c[2]) }
        \cup { << Frame(<< Row(0, FromInt(-1000)) >>), Frame(<< >>), Falling >>,
               << Frame(<< Row(0, FromInt(-1000)) >>),
                  Frame(<< Row(Today, FromInt(1050)) >>), Falling >>,
               << Frame(<< Row(0, FromInt(-1000)) >>),
                  Frame(<< Row(0, FromInt(500)) >>), ZeroQuote >>,
               << Frame(<< Row(Today, FromInt(-1000)) >>),
                  Frame(<< Row(0, FromInt(500)) >>), Rising >>,
               << Frame(<< Row(Today, FromInt(-1000)) >>),
                  Frame(<< Row(0, FromInt(500)), Row(Today, FromInt(1050)) >>), Rising >> }

\* lines 210-223
Investments(rows) ==
    [i \in 1..Len(rows) |->
        [date |-> rows[i].date, amount |-> rows[i].amount, type |-> "investment"]]
Withdrawals(rows) ==
    [i \in 1..Len(rows) |->
        [date |-> rows[i].date, amount |-> rows[i].amount, type |-> "withdrawal"]]

\* line 226: sorted(..., key=date) is stable, equal dates keep their order
RECURSIVE InsertByDate(_, _)
InsertByDate(x, s) ==
    IF s = << >> THEN << x >>
    ELSE IF x.date < s[1].date THEN << x >> \o s
    ELSE << s[1] >> \o InsertByDate(x, Tail(s))

RECURSIVE SortedByDate(_)
SortedByDate(s) ==
    IF s = << >> THEN << >>
    ELSE InsertByDate(s[Len(s)], SortedByDate(SubSeq(s, 1, Len(s) - 1)))

\* lines 236-250
ExactMatch(data, d) == SelectSeq(data, LAMBDA q : q.date = d)
\* a lookup that falls back on the quotes dated before the transaction
PastDates(data, d) == SelectSeq(data, LAMBDA q : q.date < d)

FutureDates(data, d) == SelectSeq(data, LAMBDA q : q.date > d)
NiftyPrice(data, d) ==
    IF ExactMatch(data, d) # << >> THEN ExactMatch(data, d)[1].close
    ELSE IF FutureDates(data, d) # << >> THEN FutureDates(data, d)[1].close
    ELSE data[Len(data)].close

\* a replay without the clamp
Unclamped(units) == units

\* lines 276-277
Clamped(units) == IF FLt(units, Zero) THEN Zero ELSE units

\* a redemption that sells the fraction itself, not that fraction of the units
SellFlat(units, withdrawal_amount, current_portfolio_value) ==
    IF FLt(Zero, current_portfolio_value)
    THEN Clamped(FSub(units, FDiv(withdrawal_amount, current_portfolio_value)))
    ELSE units

\* lines 270-277
SellShare(units, withdrawal_amount, current_portfolio_value) ==
    IF FLt(Zero, current_portfolio_value)
    THEN Clamped(FSub(units,
                      FMul(units, FDiv(withdrawal_amount, current_portfolio_value))))
    ELSE units

\* a replay in which a withdrawal made with no units held is owed
Overdrawn(units, amount, nifty_price) ==
    IF FLt(Zero, units)
    THEN SellShare(units, FAbs(amount), FMul(units, nifty_price))
    ELSE FSub(units, FDiv(FAbs(amount), nifty_price))

\* lines 264-277
Withdraw(units, amount, nifty_price) ==
    IF FLt(Zero, units)
    THEN SellShare(units, FAbs(amount), FMul(units, nifty_price))
    ELSE units

\* lines 257-259
Invest(units, amount, nifty_price) == FAdd(units, FDiv(FAbs(amount), nifty_price))

\* a check that lets an empty price series through
MissingOnly(data) == data = None

\* line 202: nifty_data is None or nifty_data.empty
NoPrices(data) == data = None \/ data = << >>

\* lines 202-203
NiftyNoData ==
    /\ npc = "start"
    /\ NoPrices(nifty_data)
    /\ nifty_result' = None
    /\ npc' = "returned"
    /\ UNCHANGED << arg_cash_flows, arg_dates, pc, cash_flows, dates, years, gi, p0,
                    itr, bi, br, k, best_rate, best_npv, fine_lo, fine_hi, outcome,
                    calls, prev, outflows, inflows, nifty_data, transactions, ti,
                    total_units, total_invested_amount, current_value, stats_vars,
                    guess, app_vars >>

\* lines 205-230
NiftySort ==
    /\ npc = "start"
    /\ ~NoPrices(nifty_data)
    /\ transactions' = SortedByDate(Investments(Rows(outflows)) \o Withdrawals(Rows(inflows)))
    /\ total_units' = Zero
    /\ total_invested_amount' = Zero
    /\ ti' = 1
    /\ npc' = "replay"
    /\ UNCHANGED << arg_cash_flows, arg_dates, pc, cash_flows, dates, years, gi, p0,
                    itr, bi, br, k, best_rate, best_npv, fine_lo, fine_hi, outcome,
                    calls, prev, outflows, inflows, nifty_data, current_value,
                    nifty_result, stats_vars, guess, app_vars >>

\* lines 233-277: one pass of the loop over the transactions
NiftyTransaction ==
    /\ npc = "replay"
    /\ ti <= Len(transactions)
    /\ \E trans \in { transactions[ti] } :
       \E nifty_price \in { NiftyPrice(nifty_data, trans.date) } :
           IF nifty_price.m = 0
           THEN UNCHANGED << total_units, total_invested_amount >>
           ELSE IF trans.type = "investment"
           THEN /\ total_units' = Invest(total_units, trans.amount, nifty_price)
                /\ total_invested_amount' =
                       FAdd(total_invested_amount, FAbs(trans.amount))
           ELSE /\ total_units' = Withdraw(total_units, trans.amount, nifty_price)
                /\ UNCHANGED total_invested_amount
    /\ ti' = ti + 1
    /\ UNCHANGED << arg_cash_flows, arg_dates, pc, cash_flows, dates, years, gi, p0,
                    itr, bi, br, k, best_rate, best_npv, fine_lo, fine_hi, outcome,
                    calls, prev, outflows, inflows, nifty_data, npc, transactions,
                    current_value, nifty_result, stats_vars, guess, app_vars >>

LatestPrice == nifty_data[Len(nifty_data)].close
RowDates(rows) == [i \in 1..Len(rows) |-> Timestamp(rows[i].date)]
\* a series built from the sizes of the amounts, without their signs
RowSizes(rows) == [i \in 1..Len(rows) |-> FAbs(rows[i].amount)]

RowAmounts(rows) == [i \in 1..Len(rows) |-> rows[i].amount]

\* lines 280-304: the value today, and the call of calculate_xirr
NiftyValue ==
    /\ npc = "replay"
    /\ ti > Len(transactions)
    /\ \E value \in { FMul(total_units, LatestPrice) } :
           /\ current_value' = value
           /\ arg_cash_flows' =
                  RowAmounts(Rows(outflows)) \o RowAmounts(Rows(inflows)) \o << value >>
    /\ arg_dates' = RowDates(Rows(outflows)) \o RowDates(Rows(inflows)) \o << Now >>
    /\ pc' = "call"
    /\ npc' = "xirr"
    /\ UNCHANGED << cash_flows, dates, years, gi, p0, itr, bi, br, k, best_rate,
                    best_npv, fine_lo, fine_hi, outcome, calls, prev, outflows,
                    inflows, nifty_data, transactions, ti, total_units,
                    total_invested_amount, nifty_result, stats_vars, guess, app_vars >>

Hundred == FromInt(100)

\* a failure of calculate_xirr that reaches the outer handler of line 316
NoneOnFailure(result) ==
    IF result.kind = "rate"
    THEN [current_value |-> current_value,
          xirr_percentage |-> FMul(result.rate, Hundred),
          units |-> total_units,
          latest_price |-> LatestPrice]
    ELSE None

\* lines 302-314: a failure of calculate_xirr leaves the rate None
NiftyRecord(result) ==
    [current_value |-> current_value,
     xirr_percentage |-> IF result.kind = "rate"
                         THEN FMul(result.rate, Hundred) ELSE None,
     units |-> total_units,
     latest_price |-> LatestPrice]

\* lines 302-314: calculate_xirr has returned or raised
NiftyReturn ==
    /\ npc = "xirr"
    /\ pc = "done"
    /\ nifty_result' = NiftyRecord(outcome)
    /\ npc' = "returned"
    /\ UNCHANGED << arg_cash_flows, arg_dates, pc, cash_flows, dates, years, gi, p0,
                    itr, bi, br, k, best_rate, best_npv, fine_lo, fine_hi, outcome,
                    calls, prev, outflows, inflows, nifty_data, transactions, ti,
                    total_units, total_invested_amount, current_value, stats_vars,
                    guess, app_vars >>

InitNifty ==
    /\ \E call \in NiftyCalls :
           /\ outflows = call[1]
           /\ inflows = call[2]
           /\ nifty_data = call[3]
    /\ npc = "start"
    /\ NoReplay
    /\ arg_cash_flows = << >>
    /\ arg_dates = << >>
    /\ guess = DefaultGuess
    /\ pc = "idle"
    /\ Fresh
    /\ calls = 0
    /\ prev = None
    /\ NoStats
    /\ NewSession

NextNifty ==
    \/ NiftyNoData \/ NiftySort \/ NiftyTransaction \/ NiftyValue \/ NiftyReturn
    \/ Next

SpecNifty == InitNifty /\ [][NextNifty]_vars

(***************************************************************************)
(* calculate_portfolio_stats: the figures of one ledger, its rate and the  *)
(* benchmark                                                               *)
(***************************************************************************)
\* ledgers as load_and_parse_ledger hands them over: fund additions carry
\* the negated credit of their row (line 498), so a reversed credit arrives
\* as an outflow with a positive amount; a frame without rows has its columns
\* when the Zerodha loader selected it (lines 495-514) and none when it was
\* built from an empty list (lines 418-419)
StatsOutflows ==
    { NoColumns,
      Frame(<< >>),
      Frame(<< Row(0, FromInt(-1000)) >>),
      Frame(<< Row(Today, FromInt(-1000)) >>),
      Frame(<< Row(Today, FromInt(-1000000)) >>),
      Frame(<< Row(Today, FromInt(500)) >>) }
StatsInflows == { NoColumns, Frame(<< >>), Frame(<< Row(Today, FromInt(500)) >>) }
\* a payout that precedes the fund additions of its ledger
EarlyInflow == Frame(<< Row(0, FromInt(500)) >>)
CurrentValues == { FromInt(1), FromInt(1000), FromInt(1050) }

\* the calls: every ledger of the sets above with every current value, a
\* ledger of two fund additions, and a ledger whose payout precedes its fund
\* addition
StatsCalls ==
    (StatsOutflows \X StatsInflows \X CurrentValues)
        \cup { << Frame(<< Row(0, FromInt(-1000)), Row(Today, FromInt(-1000)) >>),
                  Frame(<< >>), FromInt(1050) >>,
               << Frame(<< Row(Today, FromInt(-1000)) >>), EarlyInflow, FromInt(1) >> }

\* what fetch_nifty50_data returns: None, or a price series
FetchResults == { None, << >>, Rising }

\* Series.sum(): the amounts added from the first row on
RECURSIVE SumRows(_)
SumRows(rows) ==
    IF rows = << >> THEN Zero
    ELSE FAdd(SumRows(SubSeq(rows, 1, Len(rows) - 1)), rows[Len(rows)].amount)

\* lines 633-634: frame['amount'].sum()
SumAmounts(frame) ==
    IF \E c \in 1..Len(frame.columns) : frame.columns[c] = "amount"
    THEN SumRows(Rows(frame))
    ELSE KeyError("amount")

\* a first date taken over the inflows as well
EarliestOfAll(rows) ==
    IF Len(rows) + Len(Rows(inflows)) > 0
    THEN Timestamp(CHOOSE d \in { (rows \o Rows(inflows))[i].date :
                                     i \in 1..(Len(rows) + Len(Rows(inflows))) } :
                       \A i \in 1..(Len(rows) + Len(Rows(inflows))) :
                           d <= (rows \o Rows(inflows))[i].date)
    ELSE Now

\* lines 636-643
FirstDate(rows) ==
    IF Len(rows) > 0
    THEN Timestamp(CHOOSE d \in { rows[i].date : i \in 1..Len(rows) } :
                       \A i \in 1..Len(rows) : d <= rows[i].date)
    ELSE Now
DaysInvested(rows) ==
    IF Len(rows) > 0 THEN (Now - FirstDate(rows)) \div SecondsPerDay ELSE 0
YearsInvested(rows) ==
    IF Len(rows) > 0 THEN FDiv(FromInt(DaysInvested(rows)), FromRatio(1461, 4)) ELSE Zero

\* line 645
NetGain(value, total_withdrawn, total_invested) ==
    FSub(FAdd(value, total_withdrawn), total_invested)

\* a simple return computed for every total but 0
ReturnUnlessZero(net_gain, total_invested) ==
    IF total_invested.m # 0
    THEN FMul(FDiv(net_gain, total_invested), Hundred)
    ELSE Zero

\* line 646
SimpleReturn(net_gain, total_invested) ==
    IF FLt(Zero, total_invested)
    THEN FMul(FDiv(net_gain, total_invested), Hundred)
    ELSE Zero

\* lines 688-703, with the fields as they stand before calculate_xirr is called
Record(total_invested, total_withdrawn, net_gain) ==
    [file_name |-> "",
     first_date |-> FirstDate(Rows(outflows)),
     days_invested |-> DaysInvested(Rows(outflows)),
     years_invested |-> YearsInvested(Rows(outflows)),
     total_invested |-> total_invested,
     total_withdrawn |-> total_withdrawn,
     current_value |-> arg_current_value,
     net_gain |-> net_gain,
     simple_return |-> SimpleReturn(net_gain, total_invested),
     xirr_percentage |-> None,
     xirr_error |-> None,
     num_outflows |-> Len(Rows(outflows)),
     num_inflows |-> Len(Rows(inflows)),
     nifty50_stats |-> None]

\* lines 633-634: a frame without an 'amount' column ends the call in KeyError
StatsKeyError ==
    /\ spc = "start"
    /\ \E frame \in { outflows, inflows } : SumAmounts(frame) = KeyError("amount")
    /\ stats' = KeyError("amount")
    /\ spc' = "raised"
    /\ UNCHANGED << arg_cash_flows, arg_dates, pc, cash_flows, dates, years, gi, p0,
                    itr, bi, br, k, best_rate, best_npv, fine_lo, fine_hi, outcome,
                    calls, prev, nifty_vars, arg_current_value, fetched, guess,
                    app_vars >>

\* lines 631-671: the totals, the series, and the call of calculate_xirr
StatsStart ==
    /\ spc = "start"
    /\ SumAmounts(outflows) # KeyError("amount")
    /\ SumAmounts(inflows) # KeyError("amount")
    /\ \E total_invested \in { FNeg(SumAmounts(outflows)) } :
       \E total_withdrawn \in { SumAmounts(inflows) } :
           stats' = Record(total_invested, total_withdrawn,
                           NetGain(arg_current_value, total_withdrawn, total_invested))
    /\ arg_cash_flows' =
           RowAmounts(Rows(outflows)) \o RowAmounts(Rows(inflows)) \o << arg_current_value >>
    /\ arg_dates' = RowDates(Rows(outflows)) \o RowDates(Rows(inflows)) \o << Now >>
    /\ pc' = "call"
    /\ spc' = "xirr"
    /\ UNCHANGED << cash_flows, dates, years, gi, p0, itr, bi, br, k, best_rate,
                    best_npv, fine_lo, fine_hi, outcome, calls, prev, nifty_vars,
                    arg_current_value, fetched, guess, app_vars >>

\* line 674: str(e), a value that is not None
Str(msg) == [str |-> msg]

\* a handler that reports a failed calculation as a rate of 0
FailureAsZero(result) ==
    IF result.kind = "rate"
    THEN [stats EXCEPT !.xirr_percentage = FMul(result.rate, Hundred)]
    ELSE [stats EXCEPT !.xirr_percentage = Zero]

\* lines 670-674
XirrFields(result) ==
    IF result.kind = "rate"
    THEN [stats EXCEPT !.xirr_percentage = FMul(result.rate, Hundred)]
    ELSE [stats EXCEPT !.xirr_error = Str(result.msg)]

\* lines 670-674: calculate_xirr has returned or raised
StatsXirr ==
    /\ spc = "xirr"
    /\ pc = "done"
    /\ stats' = XirrFields(outcome)
    /\ pc' = "idle"
    /\ cash_flows' = << >>
    /\ dates' = << >>
    /\ years' = << >>
    /\ gi' = 0
    /\ p0' = Zero
    /\ itr' = 0
    /\ bi' = 0
    /\ br' = NoBrent
    /\ k' = 0
    /\ best_rate' = None
    /\ best_npv' = Inf
    /\ fine_lo' = Zero
    /\ fine_hi' = Zero
    /\ outcome' = Pending
    /\ spc' = "benchmark"
    /\ UNCHANGED << arg_cash_flows, arg_dates, calls, prev, nifty_vars,
                    arg_current_value, fetched, guess, app_vars >>

\* a benchmark attempted for every ledger that has a row of either kind
AnyRow == Len(Rows(outflows)) + Len(Rows(inflows)) > 0

\* line 678: the benchmark is attempted for a ledger with outflows
HasOutflows == Len(Rows(outflows)) > 0

\* line 678: without outflows there is no benchmark
StatsNoOutflows ==
    /\ spc = "benchmark"
    /\ ~HasOutflows
    /\ spc' = "returned"
    /\ UNCHANGED << arg_cash_flows, arg_dates, pc, cash_flows, dates, years, gi, p0,
                    itr, bi, br, k, best_rate, best_npv, fine_lo, fine_hi, outcome,
                    calls, prev, nifty_vars, arg_current_value, stats, fetched, guess, app_vars >>

\* lines 681-683: the fetch, and the call of calculate_nifty50_portfolio
StatsFetch ==
    /\ spc = "benchmark"
    /\ HasOutflows
    /\ fetched' = TRUE
    /\ \E data \in FetchResults :
           /\ nifty_data' = data
           /\ IF data = None
              THEN spc' = "returned" /\ UNCHANGED npc
              ELSE spc' = "nifty" /\ npc' = "start"
    /\ UNCHANGED << arg_cash_flows, arg_dates, pc, cash_flows, dates, years, gi, p0,
                    itr, bi, br, k, best_rate, best_npv, fine_lo, fine_hi, outcome,
                    calls, prev, outflows, inflows, transactions, ti, total_units,
                    total_invested_amount, current_value, nifty_result,
                    arg_current_value, stats, guess, app_vars >>

\* lines 683 and 686: nifty50_stats is the only field the benchmark sets
BenchmarkField(result) == [stats EXCEPT !.nifty50_stats = result]

\* lines 684-686: whatever the benchmark step raises is caught
StatsFetchRaises ==
    /\ spc = "benchmark"
    /\ HasOutflows
    /\ fetched' = TRUE
    /\ stats' = BenchmarkField(None)
    /\ spc' = "returned"
    /\ UNCHANGED << arg_cash_flows, arg_dates, pc, cash_flows, dates, years, gi, p0,
                    itr, bi, br, k, best_rate, best_npv, fine_lo, fine_hi, outcome,
                    calls, prev, nifty_vars, arg_current_value, guess, app_vars >>

\* line 683: calculate_nifty50_portfolio has returned
StatsBenchmark ==
    /\ spc = "nifty"
    /\ npc = "returned"
    /\ stats' = BenchmarkField(nifty_result)
    /\ spc' = "returned"
    /\ UNCHANGED << arg_cash_flows, arg_dates, pc, cash_flows, dates, years, gi, p0,
                    itr, bi, br, k, best_rate, best_npv, fine_lo, fine_hi, outcome,
                    calls, prev, nifty_vars, arg_current_value, fetched, guess, app_vars >>

InitStats ==
    /\ \E call \in StatsCalls :
           /\ outflows = call[1]
           /\ inflows = call[2]
           /\ arg_current_value = call[3]
    /\ spc = "start"
    /\ stats = Pending
    /\ fetched = FALSE
    /\ nifty_data = None
    /\ npc = "idle"
    /\ NoReplay
    /\ arg_cash_flows = << >>
    /\ arg_dates = << >>
    /\ guess = DefaultGuess
    /\ pc = "idle"
    /\ Fresh
    /\ calls = 0
    /\ prev = None
    /\ NewSession

NextStats ==
    \/ StatsKeyError \/ StatsStart \/ StatsXirr \/ StatsNoOutflows \/ StatsFetch \/ StatsFetchRaises
    \/ StatsBenchmark
    \/ NextNifty

SpecStats == InitStats /\ [][NextStats]_vars

(***************************************************************************)
(* streamlit_app.py: the wizard, and the loaders it calls                  *)
(***************************************************************************)
\* the most files uploaded at once
MaxFiles == 2

\* pd.DataFrame(rows) of a list of dicts (xirr_calculator.py, lines 418-419):
\* the columns are taken from the rows, so without rows there is none
DataFrame(rows) == IF rows = << >> THEN NoColumns ELSE Frame(rows)

\* what a readable ledger holds: rows of fund additions and rows of payouts
Ledger(additions, payouts) == [additions |-> additions, payouts |-> payouts]

\* an uploaded file: its name as os.path.splitext splits it, the password
\* that opens it (Text("") when it has none) and the ledger inside
UploadedFile(stem, ext, password, ledger) ==
    [stem |-> stem, ext |-> ext, password |-> password, ledger |-> ledger]

\* uploaded_file.name
FileName(f) == [stem |-> f.stem, ext |-> f.ext]

OneAddition == << Row(0, FromInt(-1000)) >>
OnePayout == << Row(Today, FromInt(500)) >>

\* a Zerodha CSV, a CSV without "Funds added" rows, a protected Groww PDF and
\* an unprotected PDF whose name ends in ".PDF"
Files ==
    { UploadedFile("zerodha", ".csv", Text(""), Ledger(OneAddition, OnePayout)),
      UploadedFile("payouts", ".csv", Text(""), Ledger(<< >>, OnePayout)),
      UploadedFile("groww", ".pdf", Text("ABCDE1234F"), Ledger(OneAddition, << >>)),
      UploadedFile("GROWW", ".PDF", Text(""), Ledger(OneAddition, OnePayout)) }

\* what st.file_uploader can hold: no file, or up to MaxFiles files
Selections == UNION { [1..n -> Files] : n \in 0..MaxFiles }

\* what st.text_input can hold
Passwords == { Text(""), Text("ABCDE1234F"), Text("abcde1234f") }

\* a call that returned a value, and a call ended by sys.exit(code)
Parsed(value) == [kind |-> "returned", value |-> value]
Exit(code) == [kind |-> "exit", code |-> code]

\* Python's truth value of a str or None
Truthy(s) == s # None /\ s # Text("")

\* str.lower() of the extensions that occur
LowerCase(ext) == IF ext = ".PDF" THEN ".pdf" ELSE ext

\* xirr_calculator.py, line 332: password or ""
PasswordOrEmpty(password) == IF Truthy(password) THEN password ELSE Text("")

\* xirr_calculator.py, lines 321-439: the PDF opens with its password (any
\* password opens an unprotected one); a PDF that does not open, or has no
\* deposit, ends in sys.exit(1); otherwise the pair of line 428 is returned
load_and_parse_groww_pdf(f, password) ==
    IF f.password # Text("") /\ f.password # PasswordOrEmpty(password)
    THEN Exit(1)
    ELSE IF Len(Rows(DataFrame(f.ledger.additions))) = 0
         THEN Exit(1)
         ELSE Parsed(<< DataFrame(f.ledger.additions), DataFrame(f.ledger.payouts) >>)

\* xirr_calculator.py, lines 468-525: the frames are selections of the CSV's
\* rows and have their columns; sys.exit(1) without fund additions,
\* otherwise the pair of line 525
load_and_parse_zerodha_csv(f) ==
    IF Len(f.ledger.additions) = 0
    THEN Exit(1)
    ELSE Parsed(<< Frame(f.ledger.additions), Frame(f.ledger.payouts) >>)

\* xirr_calculator.py, lines 442-465
load_and_parse_ledger(f, password) ==
    IF LowerCase(f.ext) = ".pdf"
    THEN load_and_parse_groww_pdf(f, password)
    ELSE IF LowerCase(f.ext) = ".csv"
         THEN load_and_parse_zerodha_csv(f)
         ELSE Exit(1)

\* streamlit_app.py, line 82: "outflows, inflows, account_id = ..." takes a
\* tuple of exactly three values; any other length raises ValueError
Unpacks(value) == Len(value) = 3

\* streamlit_app.py, lines 72-90: SystemExit is not an Exception and passes
\* through line 88; a ValueError of line 82 is caught there
process_uploaded_file(f, password) ==
    IF load_and_parse_ledger(f, password).kind = "exit"
    THEN load_and_parse_ledger(f, password)
    ELSE IF Unpacks(load_and_parse_ledger(f, password).value)
         THEN Parsed(<< load_and_parse_ledger(f, password).value[1],
                        load_and_parse_ledger(f, password).value[2],
                        FileName(f),
                        load_and_parse_ledger(f, password).value[3] >>)
         ELSE Parsed(<< None, None, None, None >>)

\* streamlit_app.py, lines 346-347: the loop over the uploaded files, which
\* a SystemExit ends
RECURSIVE ProcessFiles(_, _)
ProcessFiles(files, password) ==
    IF files = << >>
    THEN << >>
    ELSE IF process_uploaded_file(Head(files), password).kind = "exit"
         THEN << process_uploaded_file(Head(files), password) >>
         ELSE << process_uploaded_file(Head(files), password) >>
              \o ProcessFiles(Tail(files), password)

\* streamlit_app.py, line 275
HasPdfs(files) == \E i \in 1..Len(files) : files[i].ext = ".pdf"

\* a wizard that asks every user for a password
AlwaysPassword(files) == 3

\* streamlit_app.py, line 277
NextStep(files) == IF HasPdfs(files) THEN 3 ELSE 4

\* A click or an input of the user starts a run of main().  A run that
\* reaches st.rerun() ends there, and the script runner starts main() again:
\* that second run is a step of its own, one Render action per step of the
\* wizard.  A widget that a run does not render loses its value at the end of
\* that run.

\* lines 241-243: "Next: Upload Files" at step 1
ClickNextToUpload ==
    /\ ~rerun
    /\ session_step = 1
    /\ session_step' = 2
    /\ rerun' = TRUE
    /\ UNCHANGED << uploaded_files, pdf_password, file_uploader, password_input,
                    processed, calc_vars >>

\* lines 249-266: the user adds or removes files; a selection that is not
\* empty is stored in the session
ChooseFiles ==
    /\ ~rerun
    /\ session_step = 2
    /\ \E files \in Selections :
          /\ file_uploader' = files
          /\ uploaded_files' = IF files # << >> THEN files ELSE uploaded_files
    /\ UNCHANGED << session_step, pdf_password, password_input, processed, rerun,
                    calc_vars >>

\* lines 249-273 and 283-287: "Back" at step 2, in either branch
ClickBackFromUpload ==
    /\ ~rerun
    /\ session_step = 2
    /\ uploaded_files' = IF file_uploader # << >> THEN file_uploader ELSE uploaded_files
    /\ session_step' = 1
    /\ rerun' = TRUE
    /\ UNCHANGED << pdf_password, file_uploader, password_input, processed, calc_vars >>

\* lines 249-281: the button exists only while the uploader holds files
ClickNextFromUpload ==
    /\ ~rerun
    /\ session_step = 2
    /\ file_uploader # << >>
    /\ uploaded_files' = file_uploader
    /\ session_step' = NextStep(file_uploader)
    /\ rerun' = TRUE
    /\ UNCHANGED << pdf_password, file_uploader, password_input, processed, calc_vars >>

\* lines 295-303
TypePassword ==
    /\ ~rerun
    /\ session_step = 3
    /\ \E password \in Passwords :
          /\ password_input' = password
          /\ pdf_password' = IF Truthy(password) THEN password ELSE None
    /\ UNCHANGED << session_step, uploaded_files, file_uploader, processed, rerun,
                    calc_vars >>

\* lines 295-311: "Back" at step 3
ClickBackFromPassword ==
    /\ ~rerun
    /\ session_step = 3
    /\ pdf_password' = IF Truthy(password_input) THEN password_input ELSE None
    /\ session_step' = 2
    /\ rerun' = TRUE
    /\ UNCHANGED << uploaded_files, file_uploader, password_input, processed, calc_vars >>

\* lines 295-317: "Skip (No Password)"
ClickSkip ==
    /\ ~rerun
    /\ session_step = 3
    /\ pdf_password' = None
    /\ session_step' = 4
    /\ rerun' = TRUE
    /\ UNCHANGED << uploaded_files, file_uploader, password_input, processed, calc_vars >>

\* lines 295-303 and 320-325: "Next: Analysis" at step 3; without a password
\* the click only shows the warning of line 322
ClickNextFromPassword ==
    /\ ~rerun
    /\ session_step = 3
    /\ Truthy(password_input)
    /\ pdf_password' = password_input
    /\ session_step' = 4
    /\ rerun' = TRUE
    /\ UNCHANGED << uploaded_files, file_uploader, password_input, processed, calc_vars >>

\* lines 162-243: the run after st.rerun() at step 1 renders no widget
RenderWelcome ==
    /\ rerun
    /\ session_step = 1
    /\ file_uploader' = << >>
    /\ password_input' = Text("")
    /\ rerun' = FALSE
    /\ UNCHANGED << session_step, uploaded_files, pdf_password, processed, calc_vars >>

\* lines 246-287: the run after st.rerun() at step 2 renders a new uploader,
\* which holds no file
RenderUpload ==
    /\ rerun
    /\ session_step = 2
    /\ file_uploader' = << >>
    /\ password_input' = Text("")
    /\ rerun' = FALSE
    /\ UNCHANGED << session_step, uploaded_files, pdf_password, processed, calc_vars >>

\* lines 290-303: the run after st.rerun() at step 3 renders a new, empty
\* input and stores None as the password
RenderPassword ==
    /\ rerun
    /\ session_step = 3
    /\ file_uploader' = << >>
    /\ password_input' = Text("")
    /\ pdf_password' = None
    /\ rerun' = FALSE
    /\ UNCHANGED << session_step, uploaded_files, processed, calc_vars >>

\* lines 328-347: the run after st.rerun() at step 4 processes the files of
\* the session (none, and the loop of line 346 is not reached, if the list
\* were empty)
RenderAnalysis ==
    /\ rerun
    /\ session_step = 4
    /\ file_uploader' = << >>
    /\ password_input' = Text("")
    /\ processed' = ProcessFiles(uploaded_files, pdf_password)
    /\ rerun' = FALSE
    /\ UNCHANGED << session_step, uploaded_files, pdf_password, calc_vars >>

\* the wizard alone: no calculation is running
InitApp ==
    /\ NewSession
    /\ arg_cash_flows = << >>
    /\ arg_dates = << >>
    /\ guess = DefaultGuess
    /\ pc = "idle"
    /\ Fresh
    /\ calls = 0
    /\ prev = None
    /\ outflows = Frame(<< >>)
    /\ inflows = Frame(<< >>)
    /\ nifty_data = None
    /\ npc = "idle"
    /\ NoReplay
    /\ NoStats

NextApp ==
    \/ ClickNextToUpload \/ ChooseFiles \/ ClickBackFromUpload \/ ClickNextFromUpload
    \/ TypePassword \/ ClickBackFromPassword \/ ClickSkip \/ ClickNextFromPassword
    \/ RenderWelcome \/ RenderUpload \/ RenderPassword \/ RenderAnalysis

SpecApp == InitApp /\ [][NextApp]_vars

(***************************************************************************)
(* Properties                                                              *)
(***************************************************************************)
ReturnedRate == pc = "done" /\ outcome.kind = "rate"
ExtremeLoss == pc = "done" /\ outcome = ValueError(ExtremeLossMsg)
NoConvergence == pc = "done" /\ outcome = ValueError(NoConvergenceMsg)
Below(x, n) == FLt(FAbs(x), FromInt(n))
Above(x, n) == FLt(FromInt(n), FAbs(x))

\* C1 as stated: every returned rate, whichever stage produced it, has
\* |xnpv(rate)| < 1.0.  The grid search returns rates that break it.
C1_EveryRateBelowOne == ReturnedRate => Below(xnpv(outcome.rate), 1)

\* C1 amended: a rate returned by Newton or Brent has |xnpv(rate)| < 1.0; a
\* rate returned by the grid search has |xnpv(rate)| < 100.
C1_BelowOneOrGridBelowHundred ==
    ReturnedRate =>
        IF outcome.stage = "grid"
        THEN Below(xnpv(outcome.rate), 100)
        ELSE Below(xnpv(outcome.rate), 1)

\* the grid search has returned a rate whose present value is 1.0 or more
C1_GridRateAboveOne ==
    ReturnedRate /\ outcome.stage = "grid" /\ ~Below(xnpv(outcome.rate), 1)

\* C2 as stated: every returned rate lies strictly inside (-0.99, 10).
\* Brent returns rates below -0.99 and the grid search returns -0.99 itself.
C2_EveryRateInsideRange ==
    ReturnedRate =>
        FLt(FromRatio(-99, 100), outcome.rate) /\ FLt(outcome.rate, FromInt(10))

\* C2 amended: a Newton rate lies strictly inside (-0.99, 10), a Brent rate
\* lies in [-0.999, 10], a grid rate lies in [-0.99, 5].
C2_RateInsideStageRange ==
    ReturnedRate =>
        IF outcome.stage = "newton"
        THEN FLt(FromRatio(-99, 100), outcome.rate) /\ FLt(outcome.rate, FromInt(10))
        ELSE IF outcome.stage = "brent"
        THEN FLe(FromRatio(-999, 1000), outcome.rate) /\ FLe(outcome.rate, FromInt(10))
        ELSE FLe(FromRatio(-99, 100), outcome.rate) /\ FLe(outcome.rate, FromInt(5))

\* Brent has returned a rate below -0.99
C2_BrentRateBelowRange ==
    ReturnedRate /\ outcome.stage = "brent" /\ FLt(outcome.rate, FromRatio(-99, 100))

\* C3: when the lists differ in length or hold fewer than 2 cash flows, the
\* call ends at once in a ValueError, the one of the failed check, and nothing
\* was sorted, no present value was searched and no rate is returned.
C3_RejectedBeforeAnyWork ==
    (/\ pc # "call"
     /\ Len(arg_cash_flows) # Len(arg_dates) \/ Len(arg_cash_flows) < 2) =>
        /\ pc = "done"
        /\ outcome = IF Len(arg_cash_flows) # Len(arg_dates)
                     THEN ValueError("Cash flows and dates must have the same length")
                     ELSE ValueError("Need at least 2 cash flows to calculate XIRR")
        /\ cash_flows = << >> /\ dates = << >> /\ years = << >>
        /\ gi = 0 /\ bi = 0 /\ k = 0 /\ best_rate = None

\* a call with a single cash flow and a single date has been rejected
C3_SingleFlowRejected ==
    /\ pc = "done"
    /\ Len(arg_cash_flows) = 1 /\ Len(arg_dates) = 1
    /\ outcome.kind = "ValueError"

\* C4: a call whose cascade produced no rate ends in one of the two
\* classified failures, and it is the extreme loss exactly when |xnpv(-0.99)|,
\* |xnpv(5)| and the best grid value all exceed 1000.
C4_ClassifiedFailure ==
    (pc = "done" /\ outcome.kind = "ValueError" /\ cash_flows # << >>) =>
        /\ best_rate # None /\ best_rate # Zero
        /\ ExtremeLoss \/ NoConvergence
        /\ ExtremeLoss <=> /\ Above(xnpv(FromRatio(-99, 100)), 1000)
                           /\ Above(xnpv(FromInt(5)), 1000)
                           /\ FLt(FromInt(1000), best_npv)

\* a non-convergence where |xnpv(-0.99)| exceeds 1000 but another value does not
C4_NoConvergenceWithOneLargeValue ==
    NoConvergence /\ Above(xnpv(FromRatio(-99, 100)), 1000)

\* C5 as stated: a series classified as extreme loss has a negative present
\* value at -0.99, at 5 and at the best grid point.  The code classifies by
\* absolute value, so a large positive present value is classified the same.
C5_ExtremeLossIsNegative ==
    ExtremeLoss =>
        /\ xnpv(FromRatio(-99, 100)).m < 0
        /\ xnpv(FromInt(5)).m < 0
        /\ xnpv(best_rate).m < 0

\* the series -1000000 followed, not earlier, by +1
C6_Series ==
    /\ arg_cash_flows = << FromInt(-1000000), FromInt(1) >>
    /\ Len(arg_dates) = 2
    /\ arg_dates[1] <= arg_dates[2]

\* the days elapsed between its two entries
C6_Days == (arg_dates[2] - arg_dates[1]) \div SecondsPerDay

C7_Step ==
    /\ (pc' = "newton" /\ (pc # "newton" \/ gi' # gi)) =>
           /\ pc \in {"call", "newton"}
           /\ gi' = IF pc = "call" THEN 1 ELSE gi + 1
           /\ itr' = 0
           /\ p0' = << FromRatio(1, 10), FromInt(0), FromRatio(-1, 2),
                       FromRatio(1, 2), FromInt(1) >>[gi']
    /\ (/\ pc = "newton"
        /\ NewtonIteration(p0, itr).do = "return"
        /\ Below(xnpv(NewtonIteration(p0, itr).x), 1)
        /\ FLt(FromRatio(-99, 100), NewtonIteration(p0, itr).x)
        /\ FLt(NewtonIteration(p0, itr).x, FromInt(10))) =>
           /\ pc' = "done"
           /\ outcome' = Returned(NewtonIteration(p0, itr).x, "newton")
    /\ (pc = "newton" /\ pc' # "newton" /\ pc' # "done") =>
           gi = 5 /\ pc' = "brent" /\ bi' = 1
    /\ (pc \in {"brent", "brentq"} /\ pc' = "brent") => bi' = bi + 1
    /\ (pc \in {"brent", "brentq"} /\ pc' \notin {"brent", "brentq", "done"}) =>
           bi = 9 /\ pc' = "grid" /\ k' = 0
    /\ (pc' \in {"brent", "brentq"}) => pc \in {"newton", "brent", "brentq"}
    /\ (pc' \in {"grid", "refine"}) => pc \in {"brent", "brentq", "grid", "refine"}
    /\ (outcome'.kind = "ValueError" /\ outcome.kind # "ValueError") =>
           pc \in {"call", "classify"}

\* C7: the Newton attempts start from 0.1, 0.0, -0.5, 0.5, 1.0 in that order
\* and an acceptable result is returned at once; Brent starts only after the
\* fifth Newton attempt, the grid search only after the ninth bracket; no
\* attempt ends the call in an error: errors come from the validation and from
\* the final classification alone.
C7_FixedOrder == [][C7_Step]_vars

\* the grid search starts, five guesses and nine brackets behind it
C7_GridAfterAllAttempts == pc = "grid" /\ k = 0 /\ gi = 5 /\ bi = 9

\* C8: a second call with the same pairs in another order sorts them into the
\* same series and ends in the same outcome as the first.
C8_SameOutcomeShuffled ==
    (pc = "done" /\ calls > 0) =>
        /\ outcome = prev.outcome
        /\ cash_flows = prev.cash_flows
        /\ dates = prev.dates

\* the second call of a series with two different amounts on one day returned a rate
C8_SameDateShuffled ==
    /\ pc = "done" /\ calls = 1
    /\ Len(arg_dates) = 2 /\ arg_dates[1] = arg_dates[2]
    /\ arg_cash_flows[1] # arg_cash_flows[2]
    /\ outcome.kind = "rate"

\* C9: the running unit total is never negative, and the units and the
\* current value that the replay returns are not negative.
C9_UnitsNeverNegative ==
    /\ total_units.m >= 0
    /\ (npc = "returned" /\ nifty_result # None) =>
           nifty_result.units.m >= 0 /\ nifty_result.current_value.m >= 0

\* a withdrawal of more than the holding's value has emptied a holding
C9_WithdrawalClamped ==
    /\ npc = "replay" /\ ti > 1
    /\ transactions[ti - 1].type = "withdrawal"
    /\ transactions[ti - 1].amount = FromInt(1050)
    /\ total_invested_amount = FromInt(1000)
    /\ total_units = Zero

\* 2^-48, the rounding allowed between two ways of computing one number
Rounding == [m |-> Limb, l |-> 0, e |-> -100]
Near(a, b, scale) == FLe(FAbs(FSub(a, b)), FMul(FAbs(scale), Rounding))

\* what the step that processes a withdrawal w at price p does to u units
C10_Step ==
    LET trans == transactions[ti]
        p == NiftyPrice(nifty_data, trans.date)
    IN  (/\ npc = "replay" /\ ti <= Len(transactions)
         /\ trans.type = "withdrawal"
         /\ p.m > 0
         /\ FMul(total_units, p).m > 0) =>
            /\ Near(total_units',
                    FMax(Zero, FSub(total_units, FDiv(trans.amount, p))),
                    total_units)
            /\ (/\ total_units = FromInt(100)
                /\ p = FromInt(10)
                /\ trans.amount = FromInt(500)) => total_units' = FromInt(50)

\* C10: a withdrawal w with u units held at price p, u*p > 0, leaves
\* max(0, u - w/p) units, up to the rounding of the arithmetic; 100 units at
\* price 10 and a withdrawal of 500 leave exactly 50 units.
C10_ProportionalRedemption == [][C10_Step]_vars

\* 1000 was invested at price 10 and 500 withdrawn at price 10: 50 units are left
C10_HalfSold ==
    /\ npc = "replay" /\ ti = 3
    /\ transactions[1].type = "investment" /\ transactions[1].amount = FromInt(-1000)
    /\ transactions[2].type = "withdrawal" /\ transactions[2].amount = FromInt(500)
    /\ NiftyPrice(nifty_data, transactions[1].date) = FromInt(10)
    /\ NiftyPrice(nifty_data, transactions[2].date) = FromInt(10)
    /\ total_units = FromInt(50)

\* the price the replay resolves for a transaction dated d, read off the
\* price series: the quote of day d, else the earliest later quote, else the
\* last quote
C11_Price(d) ==
    LET n == Len(nifty_data)
        on == { i \in 1..n : nifty_data[i].date = d }
        after == { i \in 1..n : nifty_data[i].date > d }
    IN  IF on # {}
        THEN nifty_data[CHOOSE i \in on : \A j \in on : i <= j].close
        ELSE IF after # {}
        THEN nifty_data[CHOOSE i \in after :
                            \A j \in after : nifty_data[i].date <= nifty_data[j].date].close
        ELSE nifty_data[n].close

C11_Step ==
    LET trans == transactions[ti]
        p == C11_Price(trans.date)
    IN  (npc = "replay" /\ ti <= Len(transactions)) =>
            total_units' =
                IF p.m = 0 THEN total_units
                ELSE IF trans.type = "investment"
                THEN FAdd(total_units, FDiv(FAbs(trans.amount), p))
                ELSE Withdraw(total_units, trans.amount, p)

\* C11: every transaction of the replay is priced at the quote of its own
\* date when the price series has one, else at the earliest quote dated
\* strictly after it, else at the last quote; an earlier quote is never used
\* while a later one exists.
C11_PricedAtNextQuote == [][C11_Step]_vars

\* 1000 invested on day 0, which has no quote, between the quotes of day -1
\* (price 10) and day 2 (price 5): 200 units were bought, at the later price
C11_BoughtAtLaterQuote ==
    /\ npc = "replay" /\ ti = 2
    /\ nifty_data # None /\ Len(nifty_data) = 3
    /\ nifty_data[1] = Quote(-1, FromInt(10))
    /\ nifty_data[2] = Quote(2, FromInt(5))
    /\ transactions[1] = [date |-> 0, amount |-> FromInt(-1000), type |-> "investment"]
    /\ total_units = FromInt(200)

\* C12: with a price series that is None or empty, calculate_nifty50_portfolio
\* returns None and does nothing else: no transaction is collected or
\* processed, no unit is bought, and calculate_xirr is never called.
C12_NoDataNoWork ==
    (nifty_data = None \/ Len(nifty_data) = 0) =>
        /\ npc \in {"start", "returned"}
        /\ npc = "returned" => nifty_result = None
        /\ transactions = << >> /\ ti = 0
        /\ total_units = Zero /\ total_invested_amount = Zero
        /\ pc = "idle" /\ outcome = Pending
        /\ arg_cash_flows = << >> /\ arg_dates = << >>

\* the replay of a ledger of two investments and a withdrawal has returned
\* None for an empty price series
C12_EmptySeriesReturnedNone ==
    /\ nifty_data = << >>
    /\ Len(Rows(outflows)) = 2 /\ Len(Rows(inflows)) = 1
    /\ npc = "returned"
    /\ nifty_result = None

C13_Primary(r) ==
    << r.total_invested, r.total_withdrawn, r.net_gain, r.simple_return,
       r.xirr_percentage, r.xirr_error >>

C13_Fields ==
    { "file_name", "first_date", "days_invested", "years_invested", "total_invested",
      "total_withdrawn", "current_value", "net_gain", "simple_return",
      "xirr_percentage", "xirr_error", "num_outflows", "num_inflows", "nifty50_stats" }

\* a step of the benchmark part of calculate_portfolio_stats (lines 676-686)
C13_Step ==
    (spc \in {"benchmark", "nifty"}) =>
        /\ C13_Primary(stats') = C13_Primary(stats)
        /\ spc' = "returned" =>
               /\ DOMAIN stats' = C13_Fields
               /\ (nifty_data' = None \/ Len(nifty_data') = 0) =>
                      stats'.nifty50_stats = None
               /\ nifty_result' = None => stats'.nifty50_stats = None

\* C13 as stated: calculate_portfolio_stats always returns its record; the
\* benchmark part, whether it succeeds, yields no data or raises, changes none
\* of total_invested, total_withdrawn, net_gain, simple_return,
\* xirr_percentage and xirr_error, and without data or after a raise
\* nifty50_stats is None.  A call given a frame without an 'amount' column
\* ends in KeyError and returns no record.
C13_AlwaysReturnsRecord == [](spc # "raised") /\ [][C13_Step]_vars

\* the step in which calculate_portfolio_stats takes the result of calculate_xirr
C14_Step ==
    (spc = "xirr" /\ pc = "done") =>
        IF outcome.kind = "rate"
        THEN /\ stats'.xirr_percentage = FMul(outcome.rate, FromInt(100))
             /\ stats'.xirr_error = None
        ELSE /\ stats'.xirr_percentage = None
             /\ stats'.xirr_percentage # Zero
             /\ stats'.xirr_error = Str(outcome.msg)
             /\ stats'.xirr_error # None

C14_ExactlyOne ==
    (spc \in {"benchmark", "nifty", "returned"}) =>
        /\ (stats.xirr_percentage = None) # (stats.xirr_error = None)
        /\ stats.xirr_error \in
               {None, Str(TooFewMsg), Str(ExtremeLossMsg), Str(NoConvergenceMsg)}

\* C14: a failed calculate_xirr leaves xirr_percentage None, not 0, and its
\* message in xirr_error; a successful one leaves xirr_error None; from then
\* on exactly one of the two fields is set; the extreme-loss and the
\* non-convergence messages differ.
C14_RateOrMessage ==
    /\ [][C14_Step]_vars
    /\ []C14_ExactlyOne
    /\ [](ExtremeLossMsg # NoConvergenceMsg)

\* a ledger whose record carries the extreme-loss message and no rate
C14_ExtremeLossInRecord ==
    /\ spc = "returned"
    /\ stats.xirr_percentage = None
    /\ stats.xirr_error = Str(ExtremeLossMsg)
    /\ stats.simple_return # Zero

\* the record's totals have been computed
C15_Computed == spc \in {"xirr", "benchmark", "nifty", "returned"}

C15_Ratio == FMul(FDiv(stats.net_gain, stats.total_invested), FromInt(100))

C15_NetGain ==
    stats.net_gain = FSub(FAdd(stats.current_value, stats.total_withdrawn),
                          stats.total_invested)

\* C15 as stated: net_gain = current_value + total_withdrawn - total_invested,
\* and simple_return = net_gain / total_invested * 100 for every non-zero
\* total_invested, 0 being used only when total_invested is 0.  A negative
\* total_invested gets 0 as well.
C15_ReturnForEveryNonZeroTotal ==
    C15_Computed =>
        /\ C15_NetGain
        /\ stats.simple_return =
               IF stats.total_invested.m # 0 THEN C15_Ratio ELSE Zero

\* C15 amended: net_gain = current_value + total_withdrawn - total_invested,
\* and simple_return = net_gain / total_invested * 100 for every positive
\* total_invested, and 0 whenever total_invested is 0 or negative.
C15_ReturnForEveryPositiveTotal ==
    C15_Computed =>
        /\ C15_NetGain
        /\ stats.simple_return =
               IF FLt(Zero, stats.total_invested) THEN C15_Ratio ELSE Zero

\* a ledger whose only fund addition is a reversed credit of 500: the total
\* invested is -500, the net gain is not 0, and the simple return is 0
C15_NegativeTotalGetsZero ==
    /\ spc = "returned"
    /\ stats.total_invested = FromInt(-500)
    /\ stats.net_gain = FromInt(1500)
    /\ stats.simple_return = Zero

\* how far the cascade of calculate_xirr has come: the stage, then the run
\* within the stage, then the iteration within the run
C16_Stage ==
    CASE pc = "call" -> 0
      [] pc = "newton" -> 1
      [] pc \in {"brent", "brentq"} -> 2
      [] pc = "grid" -> 3
      [] pc = "refine" -> 4
      [] pc = "classify" -> 5
      [] OTHER -> 6

C16_Within ==
    CASE pc = "newton" -> gi * 101 + itr
      [] pc = "brent" -> bi * 202
      [] pc = "brentq" -> bi * 202 + 1 + br.i
      [] pc \in {"grid", "refine"} -> k
      [] OTHER -> 0

C16_Rank == C16_Stage * 10000 + C16_Within

C16_Bounded ==
    /\ C16_Rank' > C16_Rank
    /\ C16_Rank' <= 60000
    /\ gi' \in 0..5 /\ itr' \in 0..99
    /\ bi' \in 0..9 /\ br'.i \in 0..199
    /\ pc' = "grid" => k' \in 0..1999
    /\ pc' = "refine" => k' \in 0..999
    /\ pc' = "done" =>
           \/ outcome'.kind = "rate"
           \/ outcome' = ValueError(ExtremeLossMsg)
           \/ outcome' = ValueError(NoConvergenceMsg)

C16_StepOfTwo == Len(arg_cash_flows) >= 2 => C16_Bounded

C16_Step ==
    (Len(arg_cash_flows) >= 2 /\ Len(arg_dates) = Len(arg_cash_flows)) => C16_Bounded

\* C16 as stated: every call of calculate_xirr with two or more cash flows
\* ends, within the bounds of the cascade, in a rate or in one of the two
\* classified failures.  A call with two cash flows and one date ends in the
\* length error of line 43.
C16_EveryInputOfTwo == [][C16_StepOfTwo]_vars

\* C16 amended: a call of calculate_xirr with two or more cash flows and as
\* many dates moves forward at every step, through at most 5 Newton runs of
\* at most 100 iterations, 9 brackets of at most 200 Brent iterations, 2000
\* coarse and 1000 fine grid points, so it ends after a bounded number of
\* steps; it ends in a rate, the extreme-loss failure or the non-convergence
\* failure.
C16_BoundedCascade == [][C16_Step]_vars

\* a call that went through all five guesses, all nine brackets, the coarse
\* grid and the whole refinement before it returned
C16_WholeCascadeEnded ==
    /\ pc = "done"
    /\ gi = 5 /\ bi = 9 /\ k = 999
    /\ outcome.kind = "rate" /\ outcome.stage = "grid"
    /\ C16_Rank = 60000

\* the call with the raised terminal amount and the call before it both
\* returned a rate
C17_BothSolved ==
    /\ pc = "done" /\ calls > 0
    /\ outcome.kind = "rate"
    /\ prev.outcome.kind = "rate"

\* C17 as stated: of two series that differ only in the terminal amount and
\* are both solved, the one with the larger terminal amount never gets the
\* smaller rate.  For -100 and +100 on one day the rate is the first Newton
\* guess, 0.1; with the +100 raised to +150 it is the first grid point, -0.99.
C17_LargerTerminalNoSmallerRate ==
    C17_BothSolved => FLe(prev.outcome.rate, outcome.rate)

\* C18 as stated: a ledger of one outflow -A whose current value is A gets a
\* simple return of 0 and a rate of about 0, whatever the time elapsed since
\* the outflow, none included.  With no time elapsed the rate is the first
\* Newton guess, 10 percent.
C18_NoGainNoRate ==
    (/\ spc = "returned"
     /\ Len(Rows(outflows)) = 1 /\ Len(Rows(inflows)) = 0
     /\ Rows(outflows)[1].amount.m < 0
     /\ arg_current_value = FNeg(Rows(outflows)[1].amount)) =>
        /\ stats.simple_return = Zero
        /\ stats.xirr_percentage # None
        /\ FLt(FAbs(stats.xirr_percentage), FromInt(1))

\* the sorted series holds the pairs of the input, entry i being input pair f[i]
C19_Rearranged(f) ==
    \A i \in 1..Len(dates) :
        dates[i] = arg_dates[f[i]] /\ cash_flows[i] = arg_cash_flows[f[i]]

\* C19 as stated: the series is sorted by date alone and stably: entries of
\* one date keep the order they had in the input.  Two entries of one day
\* given with the larger amount first change places.
C19_StableByDate ==
    (cash_flows # << >>) =>
        \E f \in Permutations(1..Len(dates)) :
            /\ C19_Rearranged(f)
            /\ \A i, j \in 1..Len(dates) :
                   i < j => \/ dates[i] < dates[j]
                            \/ dates[i] = dates[j] /\ f[i] < f[j]

\* C19 amended: the series is sorted by date and, among the entries of one
\* date, by amount, the smaller amount first, whatever their input order.
C19_ByDateThenAmount ==
    (cash_flows # << >>) =>
        \E f \in Permutations(1..Len(dates)) :
            /\ C19_Rearranged(f)
            /\ \A i, j \in 1..Len(dates) :
                   i < j => \/ dates[i] < dates[j]
                            \/ dates[i] = dates[j] /\ FLe(cash_flows[i], cash_flows[j])

\* +30000 then -100 given for one day: the sorted series has -100 first
C19_SameDaySwapped ==
    /\ arg_cash_flows = << FromInt(30000), FromInt(-100) >>
    /\ arg_dates = << 0, 0 >>
    /\ cash_flows = << FromInt(-100), FromInt(30000) >>
    /\ dates = << 0, 0 >>

\* C20: the series calculate_nifty50_portfolio passes to calculate_xirr is
\* every outflow, then every inflow, each with its own date and amount, and
\* then one entry dated now whose amount is the final unit total times the
\* close of the last entry of the price series; nothing else.
C20_SyntheticSeries ==
    (npc = "xirr" \/ (npc = "returned" /\ nifty_result # None)) =>
        LET no == Len(Rows(outflows))
            ni == Len(Rows(inflows))
        IN  /\ Len(arg_cash_flows) = no + ni + 1
            /\ Len(arg_dates) = no + ni + 1
            /\ \A i \in 1..no :
                   /\ arg_dates[i] = Timestamp(Rows(outflows)[i].date)
                   /\ arg_cash_flows[i] = Rows(outflows)[i].amount
            /\ \A i \in 1..ni :
                   /\ arg_dates[no + i] = Timestamp(Rows(inflows)[i].date)
                   /\ arg_cash_flows[no + i] = Rows(inflows)[i].amount
            /\ arg_dates[no + ni + 1] = Now
            /\ arg_cash_flows[no + ni + 1] =
                   FMul(total_units, nifty_data[Len(nifty_data)].close)

\* 1000 invested and 500 withdrawn at price 10, last price 20: the series
\* passed on is -1000, +500 and the 50 units left valued at 1000 today
C20_SeriesWithTerminalValue ==
    /\ npc = "xirr"
    /\ total_units = FromInt(50)
    /\ arg_cash_flows = << FromInt(-1000), FromInt(500), FromInt(1000) >>
    /\ arg_dates = << 0, 0, Now >>

\* C21 as stated: calculate_portfolio_stats attempts the benchmark whenever
\* the ledger has at least one entry, inflows without outflows included.  A
\* ledger of inflows alone gets no attempt.
C21_AttemptedForEveryEntry ==
    (spc = "returned" /\ Len(Rows(outflows)) + Len(Rows(inflows)) > 0) => fetched

\* C21 amended: a call of calculate_portfolio_stats that returns its record
\* has attempted the benchmark exactly when the ledger has at least one
\* outflow, and not before its own rate was settled; a ledger of inflows
\* alone is returned without an attempt and without a benchmark.
C21_AttemptedForOutflows ==
    /\ (spc \in {"start", "xirr", "benchmark"}) => ~fetched
    /\ (spc \in {"nifty", "returned"}) => (fetched <=> Len(Rows(outflows)) > 0)
    /\ (spc = "returned" /\ ~fetched) => stats.nifty50_stats = None

\* a ledger of one outflow and one inflow: the benchmark was attempted and
\* the record carries its result
C21_BenchmarkAttempted ==
    /\ spc = "returned"
    /\ Len(Rows(outflows)) = 1 /\ Len(Rows(inflows)) = 1
    /\ fetched
    /\ stats.nifty50_stats # None

\* C22 as stated: first_date is the earliest date of the whole ledger,
\* outflows and inflows together, days_invested the days from it to now, and
\* years_invested = days_invested / 365.25.  An inflow dated before every
\* outflow is not counted.
C22_FromFirstTransaction ==
    (C15_Computed /\ Len(Rows(outflows)) + Len(Rows(inflows)) > 0) =>
        /\ \A i \in 1..Len(Rows(outflows)) : stats.first_date <= Timestamp(Rows(outflows)[i].date)
        /\ \A i \in 1..Len(Rows(inflows)) : stats.first_date <= Timestamp(Rows(inflows)[i].date)
        /\ \/ \E i \in 1..Len(Rows(outflows)) : stats.first_date = Timestamp(Rows(outflows)[i].date)
           \/ \E i \in 1..Len(Rows(inflows)) : stats.first_date = Timestamp(Rows(inflows)[i].date)
        /\ stats.days_invested = (Now - stats.first_date) \div SecondsPerDay
        /\ stats.years_invested =
               FDiv(FromInt(stats.days_invested), FromRatio(36525, 100))

\* C22 amended: first_date is the earliest date of the outflows, the inflows
\* not counted, days_invested the days from it to now, and years_invested =
\* days_invested / 365.25; without outflows first_date is now and both
\* periods are 0.
C22_FromFirstOutflow ==
    C15_Computed =>
        /\ \A i \in 1..Len(Rows(outflows)) : stats.first_date <= Timestamp(Rows(outflows)[i].date)
        /\ IF Len(Rows(outflows)) > 0
           THEN \E i \in 1..Len(Rows(outflows)) :
                    stats.first_date = Timestamp(Rows(outflows)[i].date)
           ELSE stats.first_date = Now
        /\ stats.days_invested = (Now - stats.first_date) \div SecondsPerDay
        /\ stats.years_invested =
               FDiv(FromInt(stats.days_invested), FromRatio(36525, 100))

\* a ledger with a payout four years ago and its only fund addition today:
\* the record counts no day
C22_PayoutBeforeFirstAddition ==
    /\ spc = "returned"
    /\ Rows(outflows) = << Row(Today, FromInt(-1000)) >>
    /\ Rows(inflows) = << Row(0, FromInt(500)) >>
    /\ stats.first_date = Timestamp(Today)
    /\ stats.days_invested = 0
    /\ stats.years_invested = Zero

\* C23: when calculate_xirr fails on the synthetic series,
\* calculate_nifty50_portfolio returns a record, not None, whose
\* current_value is the final unit total times the last close, whose units
\* and latest_price are set, and whose xirr_percentage is None; when it
\* succeeds xirr_percentage is the rate times 100.
C23_RecordWithoutRate ==
    (npc = "returned" /\ nifty_data # None /\ nifty_data # << >>) =>
        /\ pc = "done"
        /\ nifty_result # None
        /\ DOMAIN nifty_result = {"current_value", "xirr_percentage", "units", "latest_price"}
        /\ nifty_result.units = total_units
        /\ nifty_result.latest_price = nifty_data[Len(nifty_data)].close
        /\ nifty_result.current_value =
               FMul(total_units, nifty_data[Len(nifty_data)].close)
        /\ nifty_result.xirr_percentage =
               IF outcome.kind = "ValueError" THEN None
               ELSE FMul(outcome.rate, FromInt(100))

\* a replay that bought units and whose series the root finder could not
\* solve: the record is returned with the units and without a rate
C23_UnsolvedSeriesReturned ==
    /\ npc = "returned"
    /\ outcome.kind = "ValueError"
    /\ Len(arg_cash_flows) >= 2
    /\ nifty_result # None
    /\ nifty_result.xirr_percentage = None
    /\ nifty_result.units.m > 0

\* the nine brackets, in the order they are tried
C24_Brackets ==
    << << FromRatio(-999, 1000), FromInt(10) >>, << FromRatio(-999, 1000), FromInt(5) >>,
       << FromRatio(-999, 1000), FromInt(2) >>, << FromRatio(-99, 100), FromInt(10) >>,
       << FromRatio(-99, 100), FromInt(5) >>, << FromRatio(-99, 100), FromInt(2) >>,
       << FromRatio(-95, 100), FromInt(10) >>, << FromRatio(-95, 100), FromInt(5) >>,
       << FromRatio(-95, 100), FromInt(2) >> >>

C24_Strictly(lo, hi) ==
    \/ xnpv(lo).m < 0 /\ xnpv(hi).m > 0
    \/ xnpv(lo).m > 0 /\ xnpv(hi).m < 0

\* what the step that looks at a bracket, or that starts the solver, does
C24_Step ==
    /\ (pc' = "brentq" /\ pc # "brentq") =>
           /\ pc = "brent"
           /\ bi \in 1..9 /\ bi' = bi
           /\ C24_Strictly(C24_Brackets[bi][1], C24_Brackets[bi][2])
           /\ br'.i = 0
           /\ br'.xpre = C24_Brackets[bi][1] /\ br'.xcur = C24_Brackets[bi][2]
    /\ (pc = "brent" /\ ~C24_Strictly(C24_Brackets[bi][1], C24_Brackets[bi][2])) =>
           /\ pc' # "brentq"
           /\ br' = NoBrent
           /\ outcome' = outcome
           /\ IF bi < 9 THEN pc' = "brent" /\ bi' = bi + 1 ELSE pc' = "grid"

\* C24: Brent's method is started on a bracket (lower, upper) of
\* {-0.999, -0.99, -0.95} x {10, 5, 2} only when xnpv(lower) and xnpv(upper)
\* have strictly opposite signs; a bracket with an endpoint value of zero or
\* with endpoint values of one sign is passed over without a call of the
\* solver, and the next bracket (or the grid search) follows.
C24_OnlyAcrossSignChange == [][C24_Step]_vars

\* Brent's method has been started on the first bracket: the present value
\* is positive at -0.999 and negative at 10, or the reverse
C24_SolverStarted ==
    /\ pc = "brentq" /\ bi = 1 /\ br.i = 0
    /\ br.xpre = FromRatio(-999, 1000) /\ br.xcur = FromInt(10)
    /\ (br.fpre.m < 0) # (br.fcur.m < 0)
    /\ br.fpre.m # 0 /\ br.fcur.m # 0

\* the rate the grid search evaluates in this step
C25_Rate ==
    IF pc = "grid"
    THEN GridRates[k + 1]
    ELSE Linspace(fine_lo, fine_hi, 1000, k)

C25_Step ==
    /\ (pc \in {"grid", "refine"}) =>
           /\ FLe(best_npv', best_npv)
           /\ \E rate \in { C25_Rate } : \E npv \in { FAbs(xnpv(rate)) } :
                  IF FLt(npv, best_npv)
                  THEN best_rate' = rate /\ best_npv' = npv
                  ELSE best_rate' = best_rate /\ best_npv' = best_npv
    /\ (pc = "grid" /\ pc' # "grid") =>
           /\ k = 1999
           /\ pc' = "refine" <=> FLt(best_npv', FromInt(100))
           /\ pc' = "refine" =>
                  /\ k' = 0
                  /\ fine_lo' = FMax(FromRatio(-99, 100), FSub(best_rate', FromRatio(1, 2)))
                  /\ fine_hi' = FMin(FromInt(5), FAdd(best_rate', FromRatio(1, 2)))
    /\ (pc' = "refine") => pc \in {"grid", "refine"}
    /\ (pc = "refine") =>
           /\ fine_lo' = fine_lo /\ fine_hi' = fine_hi
           /\ FLe(fine_lo, C25_Rate) /\ FLe(C25_Rate, fine_hi)
           /\ FLe(FromRatio(-99, 100), fine_lo) /\ FLe(fine_hi, FromInt(5))
           /\ pc' # "refine" => k = 999

\* the grid search is over: its candidate is the best of all the points of
\* the passes it made
C25_Minimiser ==
    (/\ best_rate # None
     /\ \/ pc = "classify"
        \/ pc = "done" /\ outcome.kind = "rate" /\ outcome.stage = "grid") =>
        /\ best_npv = FAbs(xnpv(best_rate))
        /\ FLe(FromRatio(-99, 100), best_rate) /\ FLe(best_rate, FromInt(5))
        /\ \A i \in 1..2000 : FLe(best_npv, FAbs(xnpv(GridRates[i])))
        /\ (fine_lo # fine_hi) =>
               \A i \in 0..999 :
                   FLe(best_npv, FAbs(xnpv(Linspace(fine_lo, fine_hi, 1000, i))))

\* C25: the refinement runs only when the coarse minimum of |xnpv| is below
\* 100; it evaluates only rates inside
\* [max(-0.99, best - 0.5), min(5, best + 0.5)]; the best |xnpv| kept never
\* increases during either pass; the final candidate has the smallest |xnpv|
\* of all the points evaluated and lies in [-0.99, 5].
C25_GridKeepsMinimum == [][C25_Step]_vars /\ []C25_Minimiser

\* the refinement has run to its end around a coarse candidate above -0.49,
\* so that its range starts above -0.99, and its best rate was returned
C25_RefinedRateReturned ==
    /\ pc = "done" /\ outcome.kind = "rate" /\ outcome.stage = "grid"
    /\ k = 999
    /\ FLt(FromRatio(-99, 100), fine_lo) /\ FLt(fine_lo, fine_hi)
    /\ FLe(fine_lo, outcome.rate) /\ FLe(outcome.rate, fine_hi)
    /\ FLt(best_npv, FromInt(100))

\* what a step does to the arguments of the functions that are running
C26_Step ==
    /\ (pc \notin {"idle", "done"}) =>
           arg_cash_flows' = arg_cash_flows /\ arg_dates' = arg_dates
    /\ (npc \in {"start", "replay", "xirr"}) =>
           outflows' = outflows /\ inflows' = inflows /\ nifty_data' = nifty_data
    /\ (spc \in {"start", "xirr", "benchmark", "nifty"}) =>
           /\ outflows' = outflows /\ inflows' = inflows
           /\ arg_current_value' = arg_current_value

\* C26: calculate_xirr leaves the caller's cash_flows and dates lists as they
\* were, in order and contents; calculate_nifty50_portfolio leaves outflows,
\* inflows and the price series as they were; calculate_portfolio_stats
\* leaves outflows and inflows as they were; in every step, whether the call
\* ends in a result or in a failure.
C26_ArgumentsUntouched == [][C26_Step]_vars

\* calculate_xirr has ended for a series given out of date order: its own
\* lists are sorted, the caller's are in the order given
C26_SortedCopyOnly ==
    /\ spc = "xirr" /\ pc = "done"
    /\ Rows(outflows) = << Row(Today, FromInt(-1000)) >>
    /\ Rows(inflows) = << Row(0, FromInt(500)) >>
    /\ arg_dates = << Timestamp(Today), 0, Now >>
    /\ dates = << 0, Timestamp(Today), Now >>
    /\ arg_cash_flows[1] = FromInt(-1000) /\ arg_cash_flows[2] = FromInt(500)
    /\ cash_flows[1] = FromInt(500) /\ cash_flows[2] = FromInt(-1000)

\* C27 as stated: the first Newton attempt of calculate_xirr starts from the
\* value the caller passes as guess.  It starts from 0.1 whatever is passed.
C27_StartsFromGuess ==
    (pc = "newton" /\ gi = 1 /\ itr = 0) => p0 = guess

\* C28 as stated: for every uploaded ledger that load_and_parse_ledger parses,
\* process_uploaded_file returns the parsed outflows and inflows and the file
\* name.  The loaders return a pair, the unpacking into three names fails, and
\* process_uploaded_file returns four None.
C28_ParsedLedgerReturned ==
    \A i \in 1..Len(processed) :
        \E parsed \in { load_and_parse_ledger(uploaded_files[i], pdf_password) } :
            parsed.kind = "returned" =>
                /\ processed[i].kind = "returned"
                /\ processed[i].value[1] = parsed.value[1]
                /\ processed[i].value[2] = parsed.value[2]
                /\ processed[i].value[1] # None /\ processed[i].value[2] # None
                /\ processed[i].value[3] = FileName(uploaded_files[i])

\* what the replay does with a withdrawal it cannot sell units for, and what
\* the series handed to calculate_xirr holds for the withdrawals
C29_Step ==
    LET trans == transactions[ti]
        p == NiftyPrice(nifty_data, trans.date)
    IN  /\ (/\ npc = "replay" /\ ti <= Len(transactions)
            /\ trans.type = "withdrawal"
            /\ (total_units.m = 0 \/ p.m = 0)) =>
               total_units' = total_units
        /\ (/\ npc = "replay" /\ ti <= Len(transactions)
            /\ trans.type = "withdrawal"
            /\ total_units.m > 0 /\ p.m # 0
            /\ FLt(FMul(total_units, p), FAbs(trans.amount))) =>
               total_units'.m = 0
        /\ (npc = "replay" /\ npc' = "xirr") =>
               /\ Len(arg_cash_flows') = Len(Rows(outflows)) + Len(Rows(inflows)) + 1
               /\ \A j \in 1..Len(Rows(inflows)) :
                      arg_cash_flows'[Len(Rows(outflows)) + j] = Rows(inflows)[j].amount

\* C29: in calculate_nifty50_portfolio a withdrawal processed while no units
\* are held, or at a price of 0, leaves the unit total as it was; a withdrawal
\* larger than the value of the units held leaves no units; and the series
\* passed to calculate_xirr holds every withdrawal at its full amount.
C29_WithdrawalsCountedInFull == [][C29_Step]_vars

\* a ledger whose first transaction was a withdrawal, made with no units
\* held, and whose units, bought later, were emptied by a withdrawal; the
\* series holds both withdrawals in full
C29_UnsoldWithdrawalInSeries ==
    /\ npc = "xirr"
    /\ Len(transactions) = 3
    /\ transactions[1].type = "withdrawal"
    /\ transactions[Len(transactions)].type = "withdrawal"
    /\ total_invested_amount.m > 0
    /\ total_units.m = 0
    /\ Len(Rows(inflows)) = 2
    /\ arg_cash_flows[Len(Rows(outflows)) + 1] = Rows(inflows)[1].amount
    /\ arg_cash_flows[Len(Rows(outflows)) + 2] = Rows(inflows)[2].amount

C30_NamedPdf(files) == \E i \in 1..Len(files) : files[i].ext = ".pdf"

C30_Steps ==
    /\ session_step \in 1..4
    /\ session_step = 4 => uploaded_files # << >>

C30_Click ==
    /\ (session_step' = 3 /\ session_step # 3) =>
           (session_step = 2 /\ C30_NamedPdf(uploaded_files'))
    /\ (session_step' = 4 /\ session_step # 4) =>
           (session_step \in { 2, 3 } /\ uploaded_files' # << >>)

\* C30: in the wizard the session step is always one of 1, 2, 3, 4; a click
\* enters step 3 only from step 2 and only when one of the uploaded files has
\* a name ending in ".pdf"; a click enters step 4 only from step 2 or step 3,
\* and step 4 always has a non-empty list of uploaded files in the session.
C30_WizardSteps == []C30_Steps /\ [][C30_Click]_vars

\* the analysis reached through the password step, with a PDF uploaded and a
\* password entered
C30_AnalysisAfterPassword ==
    /\ session_step = 4
    /\ C30_NamedPdf(uploaded_files)
    /\ pdf_password = Text("ABCDE1234F")
    /\ processed # << >>

====
